---------------------------- MODULE Spec2Model ----------------------------
(***************************************************************************)
(* A model of the AR component extraction service of                       *)
(* backend/app/services/ar_service.py (class ARService): the geometry      *)
(* kernel, the segment filter, the box tightener, the nesting-aware NMS,   *)
(* the containment deduplicator, the normaliser, the labeler and the       *)
(* label deduplicator, chained as extract_document_features chains them,   *)
(* the relationship analyser, and what backend/app/routes/ar_routes.py     *)
(* answers for an extraction of one file and of several; with them the     *)
(* request threads of the server that backend/run.py starts, and           *)
(* resolve_file_path of backend/app/utils/shared_utils.py.                 *)
(*                                                                         *)
(* Numbers.  The code computes in Python floats.  The model computes in    *)
(* integers: pixel coordinates are integers (the box tightener alone is    *)
(* given coordinates with a fraction), a confidence is a number of         *)
(* hundredths (0.35 is 35), and every comparison of a quotient against a   *)
(* decimal threshold is cross-multiplied (a / b > 0.45 becomes             *)
(* 100 * a > 45 * b for b > 0).  An IoU is kept as the pair                *)
(* <<inter, union>> it is the quotient of.  On the integer inputs the      *)
(* model draws, the float quotient and the float literal round to the same *)
(* double exactly when the rationals are equal, so both comparisons agree. *)
(***************************************************************************)
EXTENDS Integers, Sequences, FiniteSets

VARIABLES
    pc,       \* position: which operation has run
    img,      \* <<img_width, img_height>>
    raw,      \* the segment list an operation is given (the oracle's output)
    segs,     \* the segment list after the operation that ran last
    nonbg,    \* _remove_overlaps: its local non_background when Pass B starts
    labeled,  \* the components after _label_components
    comps,    \* the components after the operation that ran last
    hints,    \* the hints argument
    vision,   \* manager.vision_model and vision_processor are loaded (and the
              \* image opens again for labeling)
    boxA,     \* geometry kernel: first argument
    boxB,     \* geometry kernel: second argument
    geo,      \* geometry kernel: the values returned
    decodes,  \* Image.open(image_path) succeeds
    ar_model, \* manager.ar_model is loaded
    raised,   \* the statement whose exception extract_document_features caught
    answers,  \* what _query_vision_for_label came to for each component
    status,   \* the 'status' of the route's JSON response
    files,    \* /extract-from-multiple: the components extracted from each file
    connections, \* the 'connections' of analyze_component_relationships
    threads,     \* where each request thread of the server stands
    stored_name, \* resolve_file_path: its argument stored_name
    file_path,   \* resolve_file_path: its argument file_path
    uploads,     \* the paths that exist on the file system
    resolved     \* resolve_file_path: the pair it returns

\* the state outside the refinement stages
\* the state of the request layer around the service
requests == <<threads, stored_name, file_path, uploads, resolved>>

service == <<decodes, ar_model, raised, answers, status, files, connections, requests>>

vars == <<pc, img, raw, segs, nonbg, labeled, comps, hints, vision, boxA, boxB, geo,
          service>>

\* no request is being handled and no path is being resolved
IdleRequests ==
    /\ threads = <<>> /\ stored_name = <<>> /\ file_path = <<>>
    /\ uploads = {} /\ resolved = <<>>

\* nothing of the service is in play
IdleService ==
    /\ IdleRequests
    /\ decodes = TRUE /\ ar_model = TRUE /\ raised = "none"
    /\ answers = <<>> /\ status = "none" /\ files = <<>> /\ connections = <<>>

Max(a, b) == IF a >= b THEN a ELSE b
Min(a, b) == IF a <= b THEN a ELSE b

(***************************************************************************)
(* Program constants: ARService.__init__ and the literals of the methods.  *)
(* Fractions are in hundredths or thousandths, as their names say.         *)
(***************************************************************************)
iou_threshold_pct == 45
nesting_size_ratio_x10 == 18
nested_margin == 20
contains_margin == 10

\* a/b < c/d for b, d # 0, as Python compares two float quotients
FracLess(a, b, c, d) == IF b * d > 0 THEN a * d < c * b ELSE a * d > c * b

BoxArea(box) == (box[3] - box[1]) * (box[4] - box[2])

(***************************************************************************)
(* _calculate_iou: the value is the pair <<inter, union>> of the quotient  *)
(* inter / union, and <<0, 1>> where the code returns 0.0.                 *)
(***************************************************************************)
\* the quotient without the test for an empty intersection
IouNoEarlyReturn(box1, box2) ==
    LET x1 == Max(box1[1], box2[1])
        y1 == Max(box1[2], box2[2])
        x2 == Min(box1[3], box2[3])
        y2 == Min(box1[4], box2[4])
        inter == (x2 - x1) * (y2 - y1)
        union == BoxArea(box1) + BoxArea(box2) - inter
    IN  IF union > 0 THEN <<inter, union>> ELSE <<0, 1>>

CalculateIou(box1, box2) ==
    LET x1 == Max(box1[1], box2[1])
        y1 == Max(box1[2], box2[2])
        x2 == Min(box1[3], box2[3])
        y2 == Min(box1[4], box2[4])
    IN  IF x2 < x1 \/ y2 < y1
        THEN <<0, 1>>
        ELSE LET inter == (x2 - x1) * (y2 - y1)
                 area1 == BoxArea(box1)
                 area2 == BoxArea(box2)
                 union == area1 + area2 - inter
             IN  IF union > 0 THEN <<inter, union>> ELSE <<0, 1>>

\* iou > self.iou_threshold
IouOverThreshold(iou) == iou[1] * 100 > iou_threshold_pct * iou[2]

(***************************************************************************)
(* _is_nested                                                              *)
(***************************************************************************)
\* the size test alone, without the containment test
IsNestedNoMargin(box1, box2) ==
    LET area1 == BoxArea(box1)
        area2 == BoxArea(box2)
    IN  /\ Min(area1, area2) # 0
        /\ ~FracLess(Max(area1, area2), Min(area1, area2), nesting_size_ratio_x10, 10)

IsNested(box1, box2) ==
    LET area1 == BoxArea(box1)
        area2 == BoxArea(box2)
    IN  IF Min(area1, area2) = 0
        THEN FALSE
        ELSE IF FracLess(Max(area1, area2), Min(area1, area2), nesting_size_ratio_x10, 10)
        THEN FALSE
        ELSE LET outer == IF area1 >= area2 THEN box1 ELSE box2
                 inner == IF area1 >= area2 THEN box2 ELSE box1
             IN  /\ outer[1] <= inner[1] + nested_margin
                 /\ outer[2] <= inner[2] + nested_margin
                 /\ outer[3] >= inner[3] - nested_margin
                 /\ outer[4] >= inner[4] - nested_margin

(***************************************************************************)
(* _contains                                                               *)
(***************************************************************************)
Contains(outer, inner) ==
    LET inner_inside ==
            /\ outer[1] <= inner[1] + contains_margin
            /\ outer[2] <= inner[2] + contains_margin
            /\ outer[3] >= inner[3] - contains_margin
            /\ outer[4] >= inner[4] - contains_margin
    IN  IF ~inner_inside
        THEN FALSE
        ELSE BoxArea(outer) > BoxArea(inner) * 2

(***************************************************************************)
(* The geometry kernel on its own: two boxes with x1 < x2 and y1 < y2 on a *)
(* grid of GridStep pixels, and one call of each function.                 *)
(***************************************************************************)
GridStep == 15
MaxCoord == 5

GridCoords == {GridStep * k : k \in 0..MaxCoord}
GridBoxes ==
    {<<x1, y1, x2, y2>> : x1 \in GridCoords, y1 \in GridCoords,
                          x2 \in GridCoords, y2 \in GridCoords}
WellFormed(box) == box[1] < box[3] /\ box[2] < box[4]

NoGeo == [iouAB |-> <<0, 1>>, iouBA |-> <<0, 1>>, iouAA |-> <<0, 1>>,
          nestedAB |-> FALSE, nestedBA |-> FALSE]

InitGeom ==
    /\ pc = "geom"
    /\ boxA \in {b \in GridBoxes : WellFormed(b)}
    /\ boxB \in {b \in GridBoxes : WellFormed(b)}
    /\ geo = NoGeo
    /\ img = <<0, 0>>
    /\ raw = <<>>
    /\ segs = <<>>
    /\ nonbg = <<>>
    /\ labeled = <<>>
    /\ comps = <<>>
    /\ hints = <<>>
    /\ vision = FALSE
    /\ IdleService

CalcGeometry ==
    /\ pc = "geom"
    /\ geo' = [iouAB |-> CalculateIou(boxA, boxB),
               iouBA |-> CalculateIou(boxB, boxA),
               iouAA |-> CalculateIou(boxA, boxA),
               nestedAB |-> IsNested(boxA, boxB),
               nestedBA |-> IsNested(boxB, boxA)]
    /\ pc' = "geom_done"
    /\ UNCHANGED <<img, raw, segs, nonbg, labeled, comps, hints, vision, boxA, boxB, service>>

NextGeom == CalcGeometry

SpecGeom == InitGeom /\ [][NextGeom]_vars

(***************************************************************************)
(* C4.  For all boxes a, b with x1 < x2 and y1 < y2: iou(a,b) = iou(b,a),  *)
(* iou(a,a) = 1, 0 <= iou(a,b) <= 1, and iou(a,b) = 0 whenever the boxes   *)
(* do not overlap, boxes that only touch along an edge included.           *)
(***************************************************************************)
Disjoint(a, b) ==
    \/ a[3] <= b[1]
    \/ b[3] <= a[1]
    \/ a[4] <= b[2]
    \/ b[4] <= a[2]

C4_IouLaws ==
    pc = "geom_done" =>
        /\ geo.iouAB[1] * geo.iouBA[2] = geo.iouBA[1] * geo.iouAB[2]
        /\ geo.iouAA[1] = geo.iouAA[2]
        /\ geo.iouAB[2] > 0
        /\ 0 <= geo.iouAB[1]
        /\ geo.iouAB[1] <= geo.iouAB[2]
        /\ Disjoint(boxA, boxB) => geo.iouAB[1] = 0

\* two boxes that are apart on both axes, and the value 0 returned for them
C4_Witness ==
    /\ pc = "geom_done"
    /\ boxA[3] < boxB[1]
    /\ boxA[4] < boxB[2]
    /\ geo.iouAB[1] = 0
    /\ geo.iouAA[1] = geo.iouAA[2]

(***************************************************************************)
(* C5.  is_nested(a,b) returns true only if area(larger)/area(smaller)     *)
(* strictly exceeds 1.8 and the smaller box lies inside the larger one     *)
(* within 20 px on all four sides; for every pair whose area ratio is at   *)
(* or below 1.8 it returns false.  (The statement as claimed.)             *)
(***************************************************************************)
Larger(a, b) == IF BoxArea(a) >= BoxArea(b) THEN a ELSE b
Smaller(a, b) == IF BoxArea(a) >= BoxArea(b) THEN b ELSE a
InsideWithin(outer, inner, m) ==
    /\ inner[1] >= outer[1] - m
    /\ inner[2] >= outer[2] - m
    /\ inner[3] <= outer[3] + m
    /\ inner[4] <= outer[4] + m

C5_Original ==
    pc = "geom_done" =>
        /\ geo.nestedAB =>
              /\ 10 * BoxArea(Larger(boxA, boxB)) > 18 * BoxArea(Smaller(boxA, boxB))
              /\ InsideWithin(Larger(boxA, boxB), Smaller(boxA, boxB), 20)
        /\ 10 * BoxArea(Larger(boxA, boxB)) <= 18 * BoxArea(Smaller(boxA, boxB))
              => ~geo.nestedAB

(***************************************************************************)
(* C5, amended.  is_nested(a,b) returns true only if the ratio is at least *)
(* 1.8 and the smaller box lies inside the larger one within 20 px; for    *)
(* every pair whose area ratio is strictly below 1.8 it returns false.     *)
(***************************************************************************)
C5_NestedAtLeastRatio ==
    pc = "geom_done" =>
        /\ geo.nestedAB =>
              /\ 10 * BoxArea(Larger(boxA, boxB)) >= 18 * BoxArea(Smaller(boxA, boxB))
              /\ InsideWithin(Larger(boxA, boxB), Smaller(boxA, boxB), 20)
        /\ 10 * BoxArea(Larger(boxA, boxB)) < 18 * BoxArea(Smaller(boxA, boxB))
              => ~geo.nestedAB

\* a pair whose ratio is exactly 1.8, reported nested
C5_Witness ==
    /\ pc = "geom_done"
    /\ geo.nestedAB
    /\ 10 * BoxArea(Larger(boxA, boxB)) = 18 * BoxArea(Smaller(boxA, boxB))

(***************************************************************************)
(* Segments.  A segment is the dict of _extract_segments: box_pixels,      *)
(* confidence (hundredths) and area_pixels; det is its position in the     *)
(* list the segmentation oracle returned, which stands for the identity of *)
(* the Python dict and is never read by the operations.  box_pixels are    *)
(* floats: box holds int(c) of each coordinate c >= 0 and sub what int()   *)
(* cuts off, in units of 1 / SubPixel of a pixel.  Only the box tightener  *)
(* is given coordinates with a fraction; everywhere else sub is zero and   *)
(* box is the coordinate itself.                                           *)
(***************************************************************************)
SubPixel == 10
WholePixels == <<0, 0, 0, 0>>

Seg(box, conf, det) ==
    [box |-> box, sub |-> WholePixels, conf |-> conf, area |-> BoxArea(box), det |-> det]

Range(s) == {s[i] : i \in 1..Len(s)}

container_min_area_pct == 55
container_min_children == 5

(***************************************************************************)
(* sorted(segments, key=confidence, reverse=True): stable, so segments of  *)
(* equal confidence keep their order.                                      *)
(***************************************************************************)
\* an insertion that puts x before the segments of its own confidence
InsertDescUnstable(sorted, x) ==
    LET n == Cardinality({i \in 1..Len(sorted) : sorted[i].conf > x.conf})
    IN  SubSeq(sorted, 1, n) \o <<x>> \o SubSeq(sorted, n + 1, Len(sorted))

InsertDesc(sorted, x) ==
    LET n == Cardinality({i \in 1..Len(sorted) : sorted[i].conf >= x.conf})
    IN  SubSeq(sorted, 1, n) \o <<x>> \o SubSeq(sorted, n + 1, Len(sorted))

\* the sort without reverse=True
InsertAsc(sorted, x) ==
    LET n == Cardinality({i \in 1..Len(sorted) : sorted[i].conf <= x.conf})
    IN  SubSeq(sorted, 1, n) \o <<x>> \o SubSeq(sorted, n + 1, Len(sorted))

RECURSIVE SortAscending(_)
SortAscending(s) ==
    IF s = <<>> THEN <<>>
    ELSE InsertAsc(SortAscending(SubSeq(s, 1, Len(s) - 1)), s[Len(s)])

\* the list left in the order it came in
SortSkipped(s) == s

RECURSIVE SortByConfidence(_)
SortByConfidence(s) ==
    IF s = <<>> THEN <<>>
    ELSE InsertDesc(SortByConfidence(SubSeq(s, 1, Len(s) - 1)), s[Len(s)])

\* the subsequence of s at the positions that satisfy Keep
RECURSIVE SelectAt(_, _, _)
SelectAt(s, keep, n) ==
    IF n = 0 THEN <<>>
    ELSE IF n \in keep THEN Append(SelectAt(s, keep, n - 1), s[n])
    ELSE SelectAt(s, keep, n - 1)

(***************************************************************************)
(* _remove_overlaps, step 1: the background boxes.  img_area = 0 stands    *)
(* for the default None as well: both are falsy.                           *)
(***************************************************************************)
\* background by its area alone
IsBackgroundAreaOnly(segments, i, img_area) ==
    /\ img_area # 0
    /\ segments[i].area * 100 > img_area * container_min_area_pct

\* background only with more children than container_min_children
IsBackgroundOverFive(segments, i, img_area) ==
    /\ img_area # 0
    /\ segments[i].area * 100 > img_area * container_min_area_pct
    /\ Cardinality({j \in 1..Len(segments) :
            j # i /\ Contains(segments[i].box, segments[j].box)})
         > container_min_children

IsBackground(segments, i, img_area) ==
    /\ img_area # 0
    /\ segments[i].area * 100 > img_area * container_min_area_pct
    /\ Cardinality({j \in 1..Len(segments) :
            j # i /\ Contains(segments[i].box, segments[j].box)})
         >= container_min_children

NonBackground(segments, img_area) ==
    LET nb == SelectAt(segments,
                       {i \in 1..Len(segments) : ~IsBackground(segments, i, img_area)},
                       Len(segments))
    IN  IF nb = <<>> THEN segments ELSE nb

(***************************************************************************)
(* _remove_overlaps, step 2: the nesting-aware NMS over non_background.    *)
(* The inner loop leaves with should_keep = False at the first kept        *)
(* segment whose IoU is over the threshold and that is not nested.         *)
(***************************************************************************)
\* should_keep decided against the last kept segment alone
ShouldKeepLastOnly(seg, kept) ==
    \/ kept = <<>>
    \/ ~ /\ IouOverThreshold(CalculateIou(seg.box, kept[Len(kept)].box))
         /\ ~IsNested(seg.box, kept[Len(kept)].box)

\* should_keep without the nesting exception
ShouldKeepPlainNms(seg, kept) ==
    ~\E k \in 1..Len(kept) : IouOverThreshold(CalculateIou(seg.box, kept[k].box))

ShouldKeep(seg, kept) ==
    ~\E k \in 1..Len(kept) :
        /\ IouOverThreshold(CalculateIou(seg.box, kept[k].box))
        /\ ~IsNested(seg.box, kept[k].box)

RECURSIVE NmsKept(_, _)
NmsKept(non_background, n) ==
    IF n = 0 THEN <<>>
    ELSE LET kept == NmsKept(non_background, n - 1)
         IN  IF ShouldKeep(non_background[n], kept)
             THEN Append(kept, non_background[n])
             ELSE kept

RemoveOverlaps(segments, img_area) ==
    IF segments = <<>>
    THEN <<>>
    ELSE LET non_background == NonBackground(SortByConfidence(segments), img_area)
         IN  NmsKept(non_background, Len(non_background))

(***************************************************************************)
(* _remove_overlaps on its own: a list of up to MaxNms segments drawn from *)
(* NmsBoxes with two confidences, optionally followed by five small boxes  *)
(* that all lie inside [0,0,100,100], and img_area absent or 160 x 100.    *)
(***************************************************************************)
MaxNms == 3

NmsBoxes ==
    { <<0, 0, 100, 100>>, <<5, 5, 98, 98>>, <<40, 40, 60, 60>>,
      <<0, 0, 100, 50>>, <<0, 0, 100, 55>>, <<110, 10, 150, 50>> }
NmsConfs == {50, 90}
Crowd ==
    << <<10, 10, 30, 30>>, <<70, 10, 90, 30>>, <<10, 70, 30, 90>>,
       <<70, 70, 90, 90>>, <<40, 65, 60, 85>> >>
NmsImages == { <<0, 0>>, <<160, 100>> }

\* the lists of length n over S, as functions of 1..n
ListsOf(S, n) == UNION {[1..k -> S] : k \in 0..n}

IdleGeo == boxA = <<0, 0, 0, 0>> /\ boxB = <<0, 0, 0, 0>> /\ geo = NoGeo
IdleLabels == labeled = <<>> /\ comps = <<>> /\ hints = <<>> /\ vision = FALSE

InitNms ==
    /\ pc = "nms"
    /\ img \in NmsImages
    /\ \E base \in ListsOf(NmsBoxes \X NmsConfs, MaxNms), crowd \in BOOLEAN :
          LET all == base \o (IF crowd THEN [i \in 1..Len(Crowd) |-> <<Crowd[i], 70>>]
                                       ELSE <<>>)
          IN  raw = [i \in 1..Len(all) |-> Seg(all[i][1], all[i][2], i)]
    /\ segs = <<>>
    /\ nonbg = <<>>
    /\ IdleLabels
    /\ IdleGeo
    /\ IdleService

RemoveOverlapsCall ==
    /\ pc = "nms"
    /\ segs' = RemoveOverlaps(raw, img[1] * img[2])
    /\ nonbg' = IF raw = <<>> THEN <<>>
                ELSE NonBackground(SortByConfidence(raw), img[1] * img[2])
    /\ pc' = "nms_done"
    /\ UNCHANGED <<img, raw, labeled, comps, hints, vision, boxA, boxB, geo, service>>

NextNms == RemoveOverlapsCall

SpecNms == InitNms /\ [][NextNms]_vars

(***************************************************************************)
(* C1.  After _remove_overlaps has run on a segment list, every pair of    *)
(* distinct segments of its output has IoU <= iou_threshold or is nested:  *)
(* no two non-nested segments whose IoU exceeds the threshold are both     *)
(* kept.                                                                   *)
(***************************************************************************)
C1_NoDuplicatePairKept ==
    pc = "nms_done" =>
        \A i, j \in 1..Len(segs) :
            i # j =>
                \/ ~IouOverThreshold(CalculateIou(segs[i].box, segs[j].box))
                \/ IsNested(segs[i].box, segs[j].box)

\* a duplicate pair went in, separated in kept by a third segment, and one came out
C1_Witness ==
    /\ pc = "nms_done"
    /\ Len(nonbg) >= 3
    /\ IouOverThreshold(CalculateIou(nonbg[1].box, nonbg[3].box))
    /\ ~IsNested(nonbg[1].box, nonbg[3].box)
    /\ ~IouOverThreshold(CalculateIou(nonbg[2].box, nonbg[3].box))
    /\ nonbg[1] \in Range(segs)
    /\ nonbg[2] \in Range(segs)
    /\ nonbg[3] \notin Range(segs)

(***************************************************************************)
(* C2.  In Pass B every suppressed segment has a retained segment with     *)
(* confidence greater than or equal to its own, with which its IoU exceeds *)
(* iou_threshold and with which it is not nested; so for an input of       *)
(* exactly two non-nested segments with IoU > threshold the output is      *)
(* exactly the higher-confidence one.                                      *)
(***************************************************************************)
DuplicatePair(a, b) ==
    /\ IouOverThreshold(CalculateIou(a.box, b.box))
    /\ ~IsNested(a.box, b.box)

C2_SuppressedHasBetterDuplicate ==
    pc = "nms_done" =>
        /\ \A s \in Range(nonbg) \ Range(segs) :
              \E k \in Range(segs) : k.conf >= s.conf /\ DuplicatePair(s, k)
        /\ (Len(raw) = 2 /\ DuplicatePair(raw[1], raw[2])) =>
              /\ Len(segs) = 1
              /\ segs[1] \in Range(raw)
              /\ \A r \in Range(raw) : segs[1].conf >= r.conf

\* [5,5,98,98] at 0.9 and [0,0,100,100] at 0.5, the lower confidence first
C2_Witness ==
    /\ pc = "nms_done"
    /\ Len(raw) = 2
    /\ raw[1].box = <<0, 0, 100, 100>> /\ raw[1].conf = 50
    /\ raw[2].box = <<5, 5, 98, 98>> /\ raw[2].conf = 90
    /\ segs = <<raw[2]>>

(***************************************************************************)
(* C3.  The Overlap Resolver never suppresses a segment on account of a    *)
(* kept segment with which it is nested: when every pair of Pass B's input *)
(* with IoU > iou_threshold is nested, Pass B retains every segment; in    *)
(* particular [0,0,100,100] and [40,40,60,60] are both retained whatever   *)
(* their confidences and order.                                            *)
(***************************************************************************)
C3_NestedNeverSuppressed ==
    pc = "nms_done" =>
        /\ (\A a, b \in Range(nonbg) : a # b => ~DuplicatePair(a, b))
              => segs = nonbg
        /\ (Len(raw) = 2 /\ {raw[1].box, raw[2].box} = {<<0, 0, 100, 100>>, <<40, 40, 60, 60>>})
              => Range(segs) = Range(raw)

\* a parent and a child with IoU over the threshold, both kept
C3_Witness ==
    /\ pc = "nms_done"
    /\ \E a, b \in Range(segs) :
          /\ a # b
          /\ IouOverThreshold(CalculateIou(a.box, b.box))
          /\ IsNested(a.box, b.box)

(***************************************************************************)
(* _filter_segments.  PassesFilter is one turn of its loop: FALSE where    *)
(* the code reaches a continue, TRUE where it reaches filtered.append.     *)
(***************************************************************************)
confidence_threshold_pct == 35
min_box_area == 1000
min_area_ratio_x1000 == 4
max_area_ratio_pct == 85
min_dimension == 30
max_aspect_ratio == 4
edge_exclude_margin_pct == 2
small_area_ratio_x1000 == 8
sliver_edge_px == 5
sliver_edge_margin == 10

\* the border test with the right and bottom sides left out
PassesFilterLeftTopOnly(seg, img_width, img_height) ==
    LET x1 == seg.box[1]
        y1 == seg.box[2]
        x2 == seg.box[3]
        y2 == seg.box[4]
        width_px == x2 - x1
        height_px == y2 - y1
        img_area == img_width * img_height
    IN  /\ seg.conf >= confidence_threshold_pct
        /\ seg.area >= min_box_area
        /\ seg.area * 1000 >= min_area_ratio_x1000 * img_area
        /\ seg.area * 100 <= img_area * max_area_ratio_pct
        /\ Max(width_px, height_px) <= max_aspect_ratio * Max(Min(width_px, height_px), 1)
        /\ width_px >= min_dimension /\ height_px >= min_dimension
        /\ ~ /\ seg.area * 1000 < small_area_ratio_x1000 * img_area
             /\ \/ y1 * 100 < edge_exclude_margin_pct * img_height
                \/ x1 * 100 < edge_exclude_margin_pct * img_width

\* the filter without the max_area_ratio test (and without the edge tests)
PassesFilterAnyArea(seg, img_width, img_height) ==
    LET width_px == seg.box[3] - seg.box[1]
        height_px == seg.box[4] - seg.box[2]
    IN  /\ seg.conf >= confidence_threshold_pct
        /\ seg.area >= min_box_area
        /\ seg.area * 1000 >= min_area_ratio_x1000 * img_width * img_height
        /\ Max(width_px, height_px) <= max_aspect_ratio * Max(Min(width_px, height_px), 1)
        /\ width_px >= min_dimension /\ height_px >= min_dimension

PassesFilter(seg, img_width, img_height) ==
    LET x1 == seg.box[1]
        y1 == seg.box[2]
        x2 == seg.box[3]
        y2 == seg.box[4]
        width_px == x2 - x1
        height_px == y2 - y1
        img_area == img_width * img_height
        \* area_ratio = seg['area_pixels'] / img_area, as the quotient it is
        aspect_num == Max(width_px, height_px)
        aspect_den == Max(Min(width_px, height_px), 1)
    IN  IF seg.conf < confidence_threshold_pct THEN FALSE
        ELSE IF seg.area < min_box_area THEN FALSE
        ELSE IF FracLess(seg.area, img_area, min_area_ratio_x1000, 1000) THEN FALSE
        ELSE IF seg.area * 100 > img_area * max_area_ratio_pct THEN FALSE
        ELSE IF FracLess(max_aspect_ratio, 1, aspect_num, aspect_den) THEN FALSE
        ELSE IF width_px < min_dimension \/ height_px < min_dimension THEN FALSE
        ELSE IF /\ FracLess(seg.area, img_area, small_area_ratio_x1000, 1000)
                /\ \/ FracLess(100 - edge_exclude_margin_pct, 100, y2, img_height)
                   \/ FracLess(y1, img_height, edge_exclude_margin_pct, 100)
                   \/ FracLess(x1, img_width, edge_exclude_margin_pct, 100)
                   \/ FracLess(100 - edge_exclude_margin_pct, 100, x2, img_width)
             THEN FALSE
        ELSE IF /\ \/ x1 < sliver_edge_px
                   \/ y1 < sliver_edge_px
                   \/ x2 > img_width - sliver_edge_px
                   \/ y2 > img_height - sliver_edge_px
                /\ \/ width_px < sliver_edge_margin
                   \/ height_px < sliver_edge_margin
             THEN FALSE
        ELSE TRUE

FilterSegments(segments, img_width, img_height) ==
    SelectAt(segments,
             {i \in 1..Len(segments) : PassesFilter(segments[i], img_width, img_height)},
             Len(segments))

(***************************************************************************)
(* _filter_segments on its own: up to MaxFilter raw segments inside an     *)
(* image of 800 x 600 or 1000 x 800.  The boxes sit on and next to each    *)
(* threshold of the filter for the 800 x 600 image.                        *)
(***************************************************************************)
MaxFilter == 2

FilterImages == { <<800, 600>>, <<1000, 800>> }
FilterBoxes ==
    { <<100, 100, 200, 180>>,   \* passes
      <<100, 100, 130, 130>>,   \* area 900
      <<100, 100, 140, 140>>,   \* area 1600: under 0.004 of 800 x 600
      <<100, 100, 148, 140>>,   \* area 1920: 0.004 of 800 x 600
      <<0, 0, 800, 520>>,       \* over 0.85 of 800 x 600
      <<0, 0, 800, 510>>,       \* 0.85 of 800 x 600
      <<100, 100, 500, 190>>,   \* aspect ratio 4.44
      <<100, 100, 500, 200>>,   \* aspect ratio 4
      <<100, 100, 129, 200>>,   \* 29 wide
      <<5, 100, 65, 150>>,      \* small, at the left border
      <<16, 100, 76, 150>>,     \* small, x1 at 0.02 of the width
      <<740, 100, 795, 150>>,   \* small, at the right border
      <<100, 100, 160, 150>> }  \* small, away from the border
FilterConfs == {34, 35, 90}

InitFilter ==
    /\ pc = "filter"
    /\ img \in FilterImages
    /\ \E l \in ListsOf(FilterBoxes \X FilterConfs, MaxFilter) :
          raw = [i \in 1..Len(l) |-> Seg(l[i][1], l[i][2], i)]
    /\ segs = <<>>
    /\ nonbg = <<>>
    /\ IdleLabels
    /\ IdleGeo
    /\ IdleService

FilterSegmentsCall ==
    /\ pc = "filter"
    /\ segs' = FilterSegments(raw, img[1], img[2])
    /\ pc' = "filter_done"
    /\ UNCHANGED <<img, raw, nonbg, labeled, comps, hints, vision, boxA, boxB, geo, service>>

NextFilter == FilterSegmentsCall

SpecFilter == InitFilter /\ [][NextFilter]_vars

(***************************************************************************)
(* C6.  _filter_segments outputs, in input order and with box and          *)
(* confidence unchanged, exactly the raw segments with confidence >= 0.35, *)
(* area >= 1000 px^2, area/image_area >= 0.004, area <= 0.85*image_area,   *)
(* max(w,h)/min(w,h) <= 4.0, w >= 30 and h >= 30, not (area ratio < 0.008  *)
(* and some side within 2% of the image dimension from an image edge) and  *)
(* not (within 5 px of an image edge and a dimension under 10 px).  It     *)
(* never outputs a segment that was not in its input.                      *)
(***************************************************************************)
C6_Accepts(s) ==
    LET w == s.box[3] - s.box[1]
        h == s.box[4] - s.box[2]
        area == w * h
        image_area == img[1] * img[2]
    IN  /\ s.conf >= 35
        /\ area >= 1000
        /\ 1000 * area >= 4 * image_area
        /\ 100 * area <= 85 * image_area
        /\ Min(w, h) > 0 /\ Max(w, h) <= 4 * Min(w, h)
        /\ w >= 30 /\ h >= 30
        /\ ~ /\ 1000 * area < 8 * image_area
             /\ \/ 100 * s.box[1] < 2 * img[1]
                \/ 100 * s.box[2] < 2 * img[2]
                \/ 100 * (img[1] - s.box[3]) < 2 * img[1]
                \/ 100 * (img[2] - s.box[4]) < 2 * img[2]
        /\ ~ /\ \/ s.box[1] < 5
                \/ s.box[2] < 5
                \/ img[1] - s.box[3] < 5
                \/ img[2] - s.box[4] < 5
             /\ (w < 10 \/ h < 10)

C6_FilterExact ==
    pc = "filter_done" =>
        /\ Range(segs) \subseteq Range(raw)
        /\ \A i \in 1..Len(raw) : raw[i] \in Range(segs) <=> C6_Accepts(raw[i])
        /\ \A i, j \in 1..Len(segs) : i < j => segs[i].det < segs[j].det

\* a segment at the right border rejected, and a second one accepted after it
C6_Witness ==
    /\ pc = "filter_done"
    /\ img = <<800, 600>>
    /\ Len(raw) = 2
    /\ raw[1].box = <<740, 100, 795, 150>> /\ raw[1].conf = 90
    /\ raw[2].box = <<0, 0, 800, 510>> /\ raw[2].conf = 35
    /\ segs = <<raw[2]>>

(***************************************************************************)
(* _tighten_boxes.  The pixels decide how many columns and rows each probe *)
(* trims; a probe stops between 0 and its limit.  trims = <<left, right,   *)
(* top, bottom>> are the four counts the loops end with.                   *)
(***************************************************************************)
tighten_margin_pct == 15
tighten_min_box == 10

\* int(box_w * self.tighten_margin)
MaxTrim(dim) == (dim * tighten_margin_pct) \div 100

\* len(range(n)[a:b]): how many indices the slice a:b takes of an axis of n
SliceLen(a, b, n) ==
    LET lo == IF a < 0 THEN Max(a + n, 0) ELSE Min(a, n)
        hi == IF b < 0 THEN Max(b + n, 0) ELSE Min(b, n)
    IN  Max(hi - lo, 0)

\* crop.shape of img_arr[y1:y2, x1:x2]: <<rows, columns>>
CropShape(seg, img_width, img_height) ==
    <<SliceLen(seg.box[2], seg.box[4], img_height),
      SliceLen(seg.box[1], seg.box[3], img_width)>>

\* crop[0, :] of a crop without rows, crop[:, 0] of a crop without columns:
\* IndexError, for a box that is not passed over as too small
TightenRaises(seg, img_width, img_height) ==
    /\ ~(seg.box[3] - seg.box[1] < tighten_min_box
          \/ seg.box[4] - seg.box[2] < tighten_min_box)
    /\ \/ CropShape(seg, img_width, img_height)[1] = 0
       \/ CropShape(seg, img_width, img_height)[2] = 0

\* the bounds of the four probe loops for a box whose crop has this shape
TrimsAllowed(seg, trims, shape) ==
    LET box_w == seg.box[3] - seg.box[1]
        box_h == seg.box[4] - seg.box[2]
    IN  /\ trims[1] \in 0..Min(MaxTrim(box_w), shape[2] - 1)
        /\ trims[2] \in 0..Min(MaxTrim(box_w), shape[2] - 1)
        /\ trims[3] \in 0..Min(MaxTrim(box_h), shape[1] - 1)
        /\ trims[4] \in 0..Min(MaxTrim(box_h), shape[1] - 1)

\* the right and bottom trims added instead of subtracted
TightenOneGrowing(seg, trims) ==
    LET new_box == <<seg.box[1] + trims[1], seg.box[2] + trims[3],
                     seg.box[3] + trims[2], seg.box[4] + trims[4]>>
    IN  [seg EXCEPT !.box = new_box, !.sub = WholePixels, !.area = BoxArea(new_box)]

\* x1, y1, x2, y2 = [int(c) for c in seg['box_pixels']]; the new box is made
\* of float(new_x1), ..., which have no fraction
TightenOne(seg, trims) ==
    LET x1 == seg.box[1]
        y1 == seg.box[2]
        x2 == seg.box[3]
        y2 == seg.box[4]
        box_w == x2 - x1
        box_h == y2 - y1
    IN  IF box_w < tighten_min_box \/ box_h < tighten_min_box
        THEN seg
        ELSE LET new_x1 == x1 + trims[1]
                 new_y1 == y1 + trims[3]
                 new_x2 == x2 - trims[2]
                 new_y2 == y2 - trims[4]
                 new_w == new_x2 - new_x1
                 new_h == new_y2 - new_y1
             IN  IF /\ new_w >= min_dimension
                    /\ new_h >= min_dimension
                    /\ ~FracLess(max_aspect_ratio, 1,
                                 Max(new_w, new_h), Max(Min(new_w, new_h), 1))
                 THEN [seg EXCEPT !.box = <<new_x1, new_y1, new_x2, new_y2>>,
                                  !.sub = WholePixels,
                                  !.area = new_w * new_h]
                 ELSE seg

TightenBoxes(segments, trims) ==
    [i \in 1..Len(segments) |-> TightenOne(segments[i], trims[i])]

(***************************************************************************)
(* _remove_contained_duplicates                                            *)
(***************************************************************************)
geo_margin == 15
child_fill_pct == 40

\* geo_contains without the margin
GeoContainsNoMargin(outer, inner) ==
    /\ outer[1] <= inner[1]
    /\ outer[2] <= inner[2]
    /\ outer[3] >= inner[3]
    /\ outer[4] >= inner[4]

GeoContains(outer, inner) ==
    /\ outer[1] <= inner[1] + geo_margin
    /\ outer[2] <= inner[2] + geo_margin
    /\ outer[3] >= inner[3] - geo_margin
    /\ outer[4] >= inner[4] - geo_margin

ContainsCount(segments, i) ==
    Cardinality({j \in 1..Len(segments) :
        j # i /\ GeoContains(segments[i].box, segments[j].box)})

\* the first j # i that segment i contains: where the inner loop breaks
FirstChild(segments, i) ==
    CHOOSE j \in 1..Len(segments) :
        /\ j # i
        /\ GeoContains(segments[i].box, segments[j].box)
        /\ \A k \in 1..(j - 1) : k = i \/ ~GeoContains(segments[i].box, segments[k].box)

\* removal for two or more children only
ToRemoveTwoPlus(segments, i) == ContainsCount(segments, i) >= 2

ToRemove(segments, i) ==
    IF ContainsCount(segments, i) >= 2
    THEN TRUE
    ELSE IF ContainsCount(segments, i) = 1
    THEN LET parent_area == BoxArea(segments[i].box)
             child_area == BoxArea(segments[FirstChild(segments, i)].box)
         IN  parent_area > 0 /\ FracLess(child_fill_pct, 100, child_area, parent_area)
    ELSE FALSE

RemoveContainedDuplicates(segments) ==
    IF Len(segments) < 2
    THEN segments
    ELSE SelectAt(segments, {i \in 1..Len(segments) : ~ToRemove(segments, i)},
                  Len(segments))

(***************************************************************************)
(* _filter_by_visual_complexity.  A segment of at least 0.015 of the image *)
(* is kept; for a smaller one the pixels of its crop decide, and passes is *)
(* the set of positions whose crop has enough colour variance or edges.    *)
(***************************************************************************)
complexity_bypass_x1000 == 15

BypassesComplexity(seg, img_area) ==
    ~FracLess(seg.area, img_area, complexity_bypass_x1000, 1000)

FilterByVisualComplexity(segments, img_area, passes) ==
    SelectAt(segments,
             {i \in 1..Len(segments) :
                 BypassesComplexity(segments[i], img_area) \/ i \in passes},
             Len(segments))

(***************************************************************************)
(* Strings.  A Python str is the sequence of its characters, so that       *)
(* strip(), lower() and startswith() are computed as Python computes them. *)
(* None and the empty string are both <<>>: the code reads a label only    *)
(* through "label or ''" and truth tests.                                  *)
(***************************************************************************)
UpperCase == <<"A", "B", "C", "D", "E", "F", "G", "H", "I", "J", "K", "L", "M",
               "N", "O", "P", "Q", "R", "S", "T", "U", "V", "W", "X", "Y", "Z">>
LowerCase == <<"a", "b", "c", "d", "e", "f", "g", "h", "i", "j", "k", "l", "m",
               "n", "o", "p", "q", "r", "s", "t", "u", "v", "w", "x", "y", "z">>
Digits == <<"0", "1", "2", "3", "4", "5", "6", "7", "8", "9">>
Whitespace == {" ", "\t", "\n", "\r"}

LowerChar(c) ==
    IF \E i \in 1..26 : UpperCase[i] = c
    THEN LowerCase[CHOOSE i \in 1..26 : UpperCase[i] = c]
    ELSE c

StrLower(s) == [i \in 1..Len(s) |-> LowerChar(s[i])]

StrStrip(s) ==
    LET inked == {i \in 1..Len(s) : s[i] \notin Whitespace}
    IN  IF inked = {} THEN <<>>
        ELSE SubSeq(s, CHOOSE i \in inked : \A j \in inked : i <= j,
                       CHOOSE i \in inked : \A j \in inked : i >= j)

StartsWith(s, prefix) ==
    Len(s) >= Len(prefix) /\ SubSeq(s, 1, Len(prefix)) = prefix

\* str(n) for n >= 0
RECURSIVE Decimal(_)
Decimal(n) ==
    IF n < 10 THEN <<Digits[n + 1]>>
    ELSE Decimal(n \div 10) \o <<Digits[(n % 10) + 1]>>

StrComponent == <<"c", "o", "m", "p", "o", "n", "e", "n", "t">>
StrUnknown == <<"u", "n", "k", "n", "o", "w", "n">>
StrUnlabeled == <<"u", "n", "l", "a", "b", "e", "l", "e", "d">>

\* f'component_{i}'
ComponentId(i) == StrComponent \o <<"_">> \o Decimal(i)
\* f"Component {i+1}", i counted from 0
Placeholder(i) == <<"C">> \o Tail(StrComponent) \o <<" ">> \o Decimal(i + 1)

(***************************************************************************)
(* _normalize_components.  A normalised value is kept as the quotient      *)
(* <<numerator, denominator>> it is computed as.  i counts from 1 here and *)
(* from 0 in the code.                                                     *)
(***************************************************************************)
NormalizeOne(seg, i, img_width, img_height) ==
    LET x1 == seg.box[1]
        y1 == seg.box[2]
        x2 == seg.box[3]
        y2 == seg.box[4]
        width_px == x2 - x1
        height_px == y2 - y1
    IN  [id |-> ComponentId(i - 1),
         x |-> <<x1, img_width>>,
         y |-> <<y1, img_height>>,
         width |-> <<width_px, img_width>>,
         height |-> <<height_px, img_height>>,
         center_x |-> <<2 * x1 + width_px, 2 * img_width>>,
         center_y |-> <<2 * y1 + height_px, 2 * img_height>>,
         conf |-> seg.conf,
         area |-> <<width_px * height_px, img_width * img_height>>,
         label |-> <<>>,
         box_pixels |-> seg.box,
         det |-> seg.det]

\* every id taken from the length of the list
NormalizeSameId(segments, img_width, img_height) ==
    [i \in 1..Len(segments) |->
        [NormalizeOne(segments[i], i, img_width, img_height)
            EXCEPT !.id = ComponentId(Len(segments))]]

NormalizeComponents(segments, img_width, img_height) ==
    [i \in 1..Len(segments) |-> NormalizeOne(segments[i], i, img_width, img_height)]

(***************************************************************************)
(* _label_components.  oracle[i] is what labeling component i comes to:    *)
(* the label _query_vision_for_label returns, <<>> when it returns None    *)
(* (no new tokens, a label cleaned to nothing, an exception it caught), or *)
(* Raised when the loop body itself raises (its except branch runs).       *)
(***************************************************************************)
Raised == <<"raise">>

LabelWithoutVision(components, hint_list) ==
    [i \in 1..Len(components) |->
        [components[i] EXCEPT
            !.label = IF i - 1 < Len(hint_list) THEN hint_list[i] ELSE Placeholder(i - 1)]]

\* the hint put in lower case before it is used
LabelOneLoweredHint(comp, i, hint_list, label) ==
    IF i - 1 < Len(hint_list) /\ hint_list[i] # <<>>
    THEN [comp EXCEPT !.label = StrLower(hint_list[i]), !.box_pixels = <<>>]
    ELSE [comp EXCEPT !.label = IF label # <<>> /\ label # Raised
                                THEN label ELSE Placeholder(i - 1),
                      !.box_pixels = <<>>]

LabelOne(comp, i, hint_list, label) ==
    IF i - 1 < Len(hint_list) /\ hint_list[i] # <<>>
    THEN [comp EXCEPT !.label = hint_list[i], !.box_pixels = <<>>]
    ELSE IF label = Raised
    THEN [comp EXCEPT !.label = Placeholder(i - 1), !.box_pixels = <<>>]
    ELSE [comp EXCEPT !.label = IF label # <<>> THEN label ELSE Placeholder(i - 1),
                      !.box_pixels = <<>>]

\* the loop without its try: what raises for one component ends the labeling
LabelComponentsNoTry(components, hint_list, vision_loaded, oracle) ==
    IF components = <<>>
    THEN components
    ELSE IF ~vision_loaded
    THEN LabelWithoutVision(components, hint_list)
    ELSE IF \E i \in 1..Len(components) :
                oracle[i] = Raised /\ ~(i - 1 < Len(hint_list) /\ hint_list[i] # <<>>)
    THEN <<>>
    ELSE [i \in 1..Len(components) |-> LabelOne(components[i], i, hint_list, oracle[i])]

LabelComponents(components, hint_list, vision_loaded, oracle) ==
    IF components = <<>>
    THEN components
    ELSE IF ~vision_loaded
    THEN LabelWithoutVision(components, hint_list)
    ELSE [i \in 1..Len(components) |-> LabelOne(components[i], i, hint_list, oracle[i])]

(***************************************************************************)
(* _deduplicate_by_label.  seen_labels is a dict: a sequence of            *)
(* <<key, value>> in insertion order, and an assignment to a key it holds  *)
(* replaces the value where the key stands.                                *)
(***************************************************************************)
DictHas(d, key) == \E k \in 1..Len(d) : d[k][1] = key
DictGet(d, key) == d[CHOOSE k \in 1..Len(d) : d[k][1] = key][2]
DictSet(d, key, value) ==
    IF DictHas(d, key)
    THEN [k \in 1..Len(d) |-> IF d[k][1] = key THEN <<key, value>> ELSE d[k]]
    ELSE Append(d, <<key, value>>)
DictValues(d) == [k \in 1..Len(d) |-> d[k][2]]

DedupKey(comp) == StrLower(StrStrip(comp.label))

\* the first component to claim a label keeps it
DedupStepKeepFirst(seen_labels, comp) ==
    LET label == DedupKey(comp)
    IN  IF label = <<>> \/ StartsWith(label, StrComponent)
        THEN DictSet(seen_labels, comp.id, comp)
        ELSE IF label = StrUnknown \/ label = StrUnlabeled
        THEN DictSet(seen_labels, comp.id, comp)
        ELSE IF ~DictHas(seen_labels, label)
        THEN DictSet(seen_labels, label, comp)
        ELSE seen_labels

\* one turn of the loop over components
DedupStep(seen_labels, comp) ==
    LET label == DedupKey(comp)
    IN  IF label = <<>> \/ StartsWith(label, StrComponent)
        THEN DictSet(seen_labels, comp.id, comp)
        ELSE IF label = StrUnknown \/ label = StrUnlabeled
        THEN DictSet(seen_labels, comp.id, comp)
        ELSE IF ~DictHas(seen_labels, label)
        THEN DictSet(seen_labels, label, comp)
        ELSE IF comp.conf > DictGet(seen_labels, label).conf
        THEN DictSet(seen_labels, label, comp)
        ELSE seen_labels

RECURSIVE SeenLabels(_, _)
SeenLabels(components, n) ==
    IF n = 0 THEN <<>>
    ELSE DedupStep(SeenLabels(components, n - 1), components[n])

DeduplicateByLabel(components) == DictValues(SeenLabels(components, Len(components)))

max_components == 50

\* components[:self.max_components]
Truncate(components) == SubSeq(components, 1, Min(Len(components), max_components))

(***************************************************************************)
(* analyze_component_relationships and _distance.  A centre is the         *)
(* quotient <<numerator, denominator>> the normaliser left; a difference   *)
(* of centres is kept in lowest terms and the distance as its square, over *)
(* the square of the least common denominator of dx and dy.                *)
(* dist < 0.15 is dist^2 < 9/400; when |dx| or |dy| alone reaches 0.15 the *)
(* distance does, and the squares are not formed.                          *)
(***************************************************************************)
proximity_threshold_pct == 15

Abs(n) == IF n < 0 THEN -n ELSE n

RECURSIVE Gcd(_, _)
Gcd(a, b) == IF b = 0 THEN a ELSE Gcd(b, a % b)

Reduce(q) ==
    LET g == Gcd(Abs(q[1]), q[2])
    IN  <<q[1] \div g, q[2] \div g>>

\* p - q for quotients with positive denominators
FracDiff(p, q) == Reduce(<<p[1] * q[2] - q[1] * p[2], p[2] * q[2]>>)

\* (dx**2 + dy**2), the square of what _distance returns
Distance2(comp1, comp2) ==
    LET dx == FracDiff(comp1.center_x, comp2.center_x)
        dy == FracDiff(comp1.center_y, comp2.center_y)
        g == Gcd(dx[2], dy[2])
        lcd == (dx[2] \div g) * dy[2]
        nx == dx[1] * (dy[2] \div g)
        ny == dy[1] * (dx[2] \div g)
    IN  <<nx * nx + ny * ny, lcd * lcd>>

\* self.proximity_threshold ** 2, in lowest terms
proximity_threshold2 ==
    Reduce(<<proximity_threshold_pct * proximity_threshold_pct, 100 * 100>>)

\* dist <= self.proximity_threshold
WithinProximityInclusive(comp1, comp2) ==
    LET dx == FracDiff(comp1.center_x, comp2.center_x)
        dy == FracDiff(comp1.center_y, comp2.center_y)
    IN  /\ 100 * Abs(dx[1]) <= proximity_threshold_pct * dx[2]
        /\ 100 * Abs(dy[1]) <= proximity_threshold_pct * dy[2]
        /\ LET d2 == Distance2(comp1, comp2)
           IN  proximity_threshold2[2] * d2[1] <= proximity_threshold2[1] * d2[2]

\* dist < self.proximity_threshold
WithinProximity(comp1, comp2) ==
    LET dx == FracDiff(comp1.center_x, comp2.center_x)
        dy == FracDiff(comp1.center_y, comp2.center_y)
    IN  /\ 100 * Abs(dx[1]) < proximity_threshold_pct * dx[2]
        /\ 100 * Abs(dy[1]) < proximity_threshold_pct * dy[2]
        /\ LET d2 == Distance2(comp1, comp2)
           IN  proximity_threshold2[2] * d2[1] < proximity_threshold2[1] * d2[2]

Connection(comp1, comp2) ==
    [from |-> comp1.id, to |-> comp2.id, distance2 |-> Distance2(comp1, comp2)]

\* the two loops from the pair (i, j) on: i over the list, j over what follows i
RECURSIVE PairLoop(_, _, _)
PairLoop(components, i, j) ==
    IF i > Len(components) THEN <<>>
    ELSE IF j > Len(components) THEN PairLoop(components, i + 1, i + 2)
    ELSE (IF WithinProximity(components[i], components[j])
          THEN <<Connection(components[i], components[j])>>
          ELSE <<>>) \o PairLoop(components, i, j + 1)

\* the 'connections' of the result
AnalyzeComponentRelationships(components) ==
    IF Len(components) < 2 THEN <<>> ELSE PairLoop(components, 1, 2)

(***************************************************************************)
(* extract_document_features: one call, stage by stage, and the response   *)
(* of /api/ar/generate to it.  The image decodes or not and the SAM model  *)
(* is loaded or not; the segmentation oracle returns raw, up to MaxRaw     *)
(* boxes inside the image (Spec) or also beyond it (SpecOutside); the      *)
(* pixels are read through the trims of the tightener and the verdicts of  *)
(* the complexity filter; labeling a crop comes to one of OracleLabels.    *)
(* An exception in a stage ends the call in its except branch, which       *)
(* returns the empty list.                                                 *)
(***************************************************************************)
MaxRaw == 2

PipeImages == { <<100, 100>>, <<400, 300>> }
PipeBoxes ==
    { <<0, 0, 100, 85>>, <<0, 0, 100, 100>>, <<40, 40, 75, 75>>, <<0, 0, 100, 50>> }
PipeConfs == {60, 90}
StrValve == <<"V", "a", "l", "v", "e">>
OracleLabels == { <<>>, StrValve, Raised }
PipeHints == { <<>>, <<StrValve>>, << <<>>, ComponentId(0) >> }

\* a probe that stops at once (0) or runs to its limit (1), side by side
TrimProfiles == { <<0, 0, 0, 0>>, <<1, 1, 1, 1>>, <<1, 0, 0, 0>> }
ProfileTrims(seg, p) ==
    LET max_trim_x == MaxTrim(seg.box[3] - seg.box[1])
        max_trim_y == MaxTrim(seg.box[4] - seg.box[2])
    IN  <<p[1] * max_trim_x, p[2] * max_trim_x, p[3] * max_trim_y, p[4] * max_trim_y>>

InBounds(seg) ==
    /\ 0 <= seg.box[1] /\ seg.box[1] < seg.box[3] /\ seg.box[3] <= img[1]
    /\ 0 <= seg.box[2] /\ seg.box[2] < seg.box[4] /\ seg.box[4] <= img[2]

Init ==
    /\ pc = "call"
    /\ img \in PipeImages
    /\ \E l \in ListsOf(PipeBoxes \X PipeConfs, MaxRaw) :
          raw = [i \in 1..Len(l) |-> Seg(l[i][1], l[i][2], i)]
    /\ hints \in PipeHints
    /\ vision \in BOOLEAN
    /\ decodes \in BOOLEAN
    /\ ar_model \in BOOLEAN
    /\ segs = <<>>
    /\ nonbg = <<>>
    /\ labeled = <<>>
    /\ comps = <<>>
    /\ raised = "none"
    /\ answers = <<>>
    /\ status = "none"
    /\ files = <<>>
    /\ connections = <<>>
    /\ IdleRequests
    /\ IdleGeo

\* Image.open, the test of manager.ar_model, the call of the SAM model
OpenStage ==
    /\ pc = "call"
    /\ IF ~decodes
       THEN raised' = "open" /\ pc' = "done"
       ELSE IF ~ar_model
       THEN raised' = raised /\ pc' = "done"
       ELSE raised' = raised /\ pc' = "start"
    /\ UNCHANGED <<img, raw, segs, nonbg, labeled, comps, hints, vision, boxA, boxB, geo,
                   decodes, ar_model, answers, status, files, connections, requests>>

FilterStage ==
    /\ pc = "start"
    /\ segs' = FilterSegments(raw, img[1], img[2])
    /\ pc' = "filtered"
    /\ UNCHANGED <<img, raw, nonbg, labeled, comps, hints, vision, boxA, boxB, geo, service>>

\* _tighten_boxes has no handler of its own: what its loop raises is caught
\* by extract_document_features
TightenStage ==
    /\ pc = "filtered"
    /\ IF \E i \in 1..Len(segs) : TightenRaises(segs[i], img[1], img[2])
       THEN /\ raised' = "tighten"
            /\ segs' = segs
            /\ pc' = "done"
       ELSE /\ \E prof \in [1..Len(segs) -> TrimProfiles] :
                  LET trims == [i \in 1..Len(segs) |-> ProfileTrims(segs[i], prof[i])]
                  IN  /\ \A i \in 1..Len(segs) :
                            TrimsAllowed(segs[i], trims[i],
                                         CropShape(segs[i], img[1], img[2]))
                      /\ segs' = TightenBoxes(segs, trims)
            /\ raised' = raised
            /\ pc' = "tightened"
    /\ UNCHANGED <<img, raw, nonbg, labeled, comps, hints, vision, boxA, boxB, geo,
                   decodes, ar_model, answers, status, files, connections, requests>>

OverlapStage ==
    /\ pc = "tightened"
    /\ segs' = RemoveOverlaps(segs, img[1] * img[2])
    /\ nonbg' = IF segs = <<>> THEN <<>>
                ELSE NonBackground(SortByConfidence(segs), img[1] * img[2])
    /\ pc' = "unique"
    /\ UNCHANGED <<img, raw, labeled, comps, hints, vision, boxA, boxB, geo, service>>

ContainmentStage ==
    /\ pc = "unique"
    /\ segs' = RemoveContainedDuplicates(segs)
    /\ pc' = "contained"
    /\ UNCHANGED <<img, raw, nonbg, labeled, comps, hints, vision, boxA, boxB, geo, service>>

ComplexityStage ==
    /\ pc = "contained"
    /\ \E passes \in SUBSET {i \in 1..Len(segs) : ~BypassesComplexity(segs[i], img[1] * img[2])} :
          segs' = FilterByVisualComplexity(segs, img[1] * img[2], passes)
    /\ pc' = "complex"
    /\ UNCHANGED <<img, raw, nonbg, labeled, comps, hints, vision, boxA, boxB, geo, service>>

NormalizeStage ==
    /\ pc = "complex"
    /\ comps' = NormalizeComponents(segs, img[1], img[2])
    /\ pc' = "normalized"
    /\ UNCHANGED <<img, raw, segs, nonbg, labeled, hints, vision, boxA, boxB, geo, service>>

LabelStage ==
    /\ pc = "normalized"
    /\ \E oracle \in [1..Len(comps) -> OracleLabels] :
          /\ \A i \in 1..Len(comps) :
                (~vision \/ (i <= Len(hints) /\ hints[i] # <<>>)) => oracle[i] = <<>>
          /\ comps' = LabelComponents(comps, hints, vision, oracle)
          /\ answers' = oracle
    /\ labeled' = comps'
    /\ pc' = "labeled"
    /\ UNCHANGED <<img, raw, segs, nonbg, hints, vision, boxA, boxB, geo,
                   decodes, ar_model, raised, status, files, connections, requests>>

DedupStage ==
    /\ pc = "labeled"
    /\ comps' = DeduplicateByLabel(comps)
    /\ pc' = "label_deduped"
    /\ UNCHANGED <<img, raw, segs, nonbg, labeled, hints, vision, boxA, boxB, geo, service>>

ReturnStage ==
    /\ pc = "label_deduped"
    /\ comps' = Truncate(comps)
    /\ pc' = "done"
    /\ UNCHANGED <<img, raw, segs, nonbg, labeled, hints, vision, boxA, boxB, geo, service>>

\* generate_ar_overlay from the call of extract_document_features on: the
\* call returns in every case, so the except branch of the route is not taken
GenerateArOverlay ==
    /\ pc = "done"
    /\ connections' = IF comps # <<>> THEN AnalyzeComponentRelationships(comps) ELSE <<>>
    /\ status' = "success"
    /\ pc' = "responded"
    /\ UNCHANGED <<img, raw, segs, nonbg, labeled, comps, hints, vision, boxA, boxB, geo,
                   decodes, ar_model, raised, answers, files, requests>>

Next ==
    \/ OpenStage
    \/ FilterStage
    \/ TightenStage
    \/ OverlapStage
    \/ ContainmentStage
    \/ ComplexityStage
    \/ NormalizeStage
    \/ LabelStage
    \/ DedupStage
    \/ ReturnStage
    \/ GenerateArOverlay

Spec == Init /\ [][Next]_vars

(***************************************************************************)
(* The same call for a segmentation oracle that also reports a box beyond  *)
(* the right border of a 100 x 100 image (the box lies inside the          *)
(* 400 x 300 one): _extract_segments takes the coordinates as they come.   *)
(***************************************************************************)
MaxOutside == 2

OutsideBoxes == { <<110, 10, 150, 50>>, <<40, 40, 75, 75>> }

InitOutside ==
    /\ pc = "call"
    /\ img \in PipeImages
    /\ \E l \in ListsOf(OutsideBoxes \X PipeConfs, MaxOutside) :
          raw = [i \in 1..Len(l) |-> Seg(l[i][1], l[i][2], i)]
    /\ hints = <<>>
    /\ vision \in BOOLEAN
    /\ decodes \in BOOLEAN
    /\ ar_model \in BOOLEAN
    /\ segs = <<>>
    /\ nonbg = <<>>
    /\ labeled = <<>>
    /\ comps = <<>>
    /\ raised = "none"
    /\ answers = <<>>
    /\ status = "none"
    /\ files = <<>>
    /\ connections = <<>>
    /\ IdleRequests
    /\ IdleGeo

SpecOutside == InitOutside /\ [][Next]_vars

(***************************************************************************)
(* C7.  For every raw segment list whose boxes lie within the image bounds *)
(* and any outcome of tightening, visual filtering and labeling, every     *)
(* component returned by extract_document_features has 0 <= x <= 1,        *)
(* 0 <= y <= 1, 0 < width <= 1, 0 < height <= 1, x + width <= 1 and        *)
(* y + height <= 1.                                                        *)
(***************************************************************************)
UnitRange(q) == q[2] > 0 /\ 0 <= q[1] /\ q[1] <= q[2]
SumAtMostOne(p, q) == p[1] * q[2] + q[1] * p[2] <= p[2] * q[2]

C7_NormalisedInUnitSquare ==
    (pc = "done" /\ \A i \in 1..Len(raw) : InBounds(raw[i])) =>
        \A i \in 1..Len(comps) :
            /\ UnitRange(comps[i].x)
            /\ UnitRange(comps[i].y)
            /\ UnitRange(comps[i].width) /\ comps[i].width[1] > 0
            /\ UnitRange(comps[i].height) /\ comps[i].height[1] > 0
            /\ SumAtMostOne(comps[i].x, comps[i].width)
            /\ SumAtMostOne(comps[i].y, comps[i].height)

\* a returned component whose box was tightened and still ends at the right border
C7_Witness ==
    /\ pc = "done"
    /\ \E i \in 1..Len(comps) :
          /\ comps[i].x[1] > 0
          /\ comps[i].x[1] + comps[i].width[1] = img[1]
          /\ raw[comps[i].det].box[1] = 0

(***************************************************************************)
(* C8.  No component returned by extract_document_features spans almost    *)
(* the entire image: for every returned component width * height is        *)
(* strictly less than 0.85, for every image size and raw segment list.     *)
(***************************************************************************)
C8_AreaBelowMax ==
    pc = "done" =>
        \A i \in 1..Len(comps) :
            100 * comps[i].width[1] * comps[i].height[1]
                < 85 * comps[i].width[2] * comps[i].height[2]

(***************************************************************************)
(* C9.  Within one extract_document_features call all returned components  *)
(* have pairwise distinct ids, also after label deduplication and          *)
(* truncation to max_components: a label-keyed dedup entry never           *)
(* overwrites and is never overwritten by an id-keyed entry, so no         *)
(* component that is kept under its id is lost.                            *)
(***************************************************************************)
KeptUnderId(c) ==
    \/ DedupKey(c) = <<>>
    \/ StartsWith(DedupKey(c), StrComponent)
    \/ DedupKey(c) \in {StrUnknown, StrUnlabeled}

C9_DistinctIds ==
    pc = "done" =>
        /\ \A i, j \in 1..Len(comps) : i # j => comps[i].id # comps[j].id
        /\ \A a, b \in Range(labeled) : ~KeptUnderId(a) => DedupKey(a) # b.id
        /\ Len(labeled) <= max_components =>
              \A c \in Range(labeled) : KeptUnderId(c) => c \in Range(comps)

\* two components returned, one of them labelled with the other's id
C9_Witness ==
    /\ pc = "done"
    /\ Len(comps) = 2
    /\ comps[1].id = ComponentId(0)
    /\ comps[2].label = ComponentId(0)

(***************************************************************************)
(* C10.  Component ids and output order follow detector order: of any two  *)
(* components returned by extract_document_features, the one whose raw     *)
(* segment appeared earlier in the segmentation oracle's output has the    *)
(* smaller positional id index and appears earlier in the returned list.   *)
(* (The statement as claimed.)                                             *)
(***************************************************************************)
IdIndex(c) == CHOOSE k \in 0..max_components : ComponentId(k) = c.id

C10_Original ==
    pc = "done" =>
        \A i, j \in 1..Len(comps) :
            comps[i].det < comps[j].det =>
                i < j /\ IdIndex(comps[i]) < IdIndex(comps[j])

(***************************************************************************)
(* C10, amended.  Component ids and output order follow confidence order:  *)
(* of any two components returned, the one with the higher confidence, or  *)
(* at equal confidence the one whose raw segment appeared earlier in the   *)
(* oracle's output, has the smaller positional id index and appears        *)
(* earlier in the returned list.                                           *)
(***************************************************************************)
RankedBefore(a, b) ==
    \/ a.conf > b.conf
    \/ a.conf = b.conf /\ a.det < b.det

C10_ConfidenceOrder ==
    pc = "done" =>
        \A i, j \in 1..Len(comps) :
            RankedBefore(comps[i], comps[j]) =>
                i < j /\ IdIndex(comps[i]) < IdIndex(comps[j])

\* two components returned in the reverse of the detector's order
C10_Witness ==
    /\ pc = "done"
    /\ Len(comps) = 2
    /\ comps[1].det = 2
    /\ comps[2].det = 1
    /\ comps[1].conf > comps[2].conf

(***************************************************************************)
(* _deduplicate_by_label on its own: the method is given any list of       *)
(* labelled components, in any order of confidence.  A component is the    *)
(* record of its id, label and confidence; det is its place in the input.  *)
(***************************************************************************)
MaxDedup == 3

StrPump == <<"P", "u", "m", "p">>
StrComponentA == <<"C">> \o Tail(StrComponent) \o <<" ", "A">>
DedupLabels ==
    { <<>>, StrValve, <<"v", "a", "l", "v", "e", " ">>, StrPump, StrComponentA,
      Placeholder(0), <<"U">> \o Tail(StrUnknown) }
DedupConfs == {60, 90}

InitDedup ==
    /\ pc = "dedup"
    /\ \E l \in ListsOf(DedupLabels \X DedupConfs, MaxDedup) :
          labeled = [i \in 1..Len(l) |->
                        [id |-> ComponentId(i - 1), label |-> l[i][1],
                         conf |-> l[i][2], det |-> i]]
    /\ comps = <<>>
    /\ img = <<0, 0>>
    /\ raw = <<>>
    /\ segs = <<>>
    /\ nonbg = <<>>
    /\ hints = <<>>
    /\ vision = FALSE
    /\ IdleGeo
    /\ IdleService

DeduplicateByLabelCall ==
    /\ pc = "dedup"
    /\ comps' = DeduplicateByLabel(labeled)
    /\ pc' = "dedup_done"
    /\ UNCHANGED <<img, raw, segs, nonbg, labeled, hints, vision, boxA, boxB, geo, service>>

NextDedup == DeduplicateByLabelCall

SpecDedup == InitDedup /\ [][NextDedup]_vars

(***************************************************************************)
(* C11.  Label deduplication keeps the maximum-confidence instance: for    *)
(* every input list, in any order, and every label used as a dedup key,    *)
(* the output of _deduplicate_by_label holds exactly one component with    *)
(* that label (compared case-insensitively after trimming) and its         *)
(* confidence is the maximum confidence of the input components carrying   *)
(* that label.                                                             *)
(***************************************************************************)
Carrying(components, key) ==
    {k \in 1..Len(components) : DedupKey(components[k]) = key}

C11_KeepsMaxConfidence ==
    pc = "dedup_done" =>
        \A c \in Range(labeled) :
            ~KeptUnderId(c) =>
                /\ Cardinality(Carrying(comps, DedupKey(c))) = 1
                /\ \A k \in Carrying(comps, DedupKey(c)) :
                      /\ \E m \in Carrying(labeled, DedupKey(c)) :
                            labeled[m].conf = comps[k].conf
                      /\ \A m \in Carrying(labeled, DedupKey(c)) :
                            labeled[m].conf <= comps[k].conf

\* "Valve" at 0.6 first and "valve " at 0.9 later: one of them is returned
C11_Witness ==
    /\ pc = "dedup_done"
    /\ \E m, n \in 1..Len(labeled) :
          /\ m < n
          /\ labeled[m].label = StrValve /\ labeled[m].conf = 60
          /\ labeled[n].label # StrValve /\ DedupKey(labeled[n]) = DedupKey(labeled[m])
          /\ labeled[n].conf = 90
    /\ \E k \in 1..Len(comps) : DedupKey(comps[k]) = StrLower(StrValve) /\ comps[k].conf = 90

(***************************************************************************)
(* C13.  For every input list to label deduplication, in any confidence    *)
(* order, the output lists the surviving components in the relative order  *)
(* they had in the input: a later, higher-confidence component that        *)
(* replaces an earlier one with the same label does not take the earlier   *)
(* one's place ahead of survivors that preceded it in the input.           *)
(***************************************************************************)
C13_InputOrderKept ==
    pc = "dedup_done" =>
        \A p, q \in 1..Len(comps) : p < q => comps[p].det < comps[q].det

(***************************************************************************)
(* C17.  The caller of an extraction through /api/ar/generate receives a   *)
(* component list plus a status that tells the three outcomes apart:       *)
(* "success" when the image decoded and the segmentation oracle ran (also  *)
(* with zero segments), a degraded status when the segmentation oracle is  *)
(* not loaded, an error status when the image fails to decode.             *)
(***************************************************************************)
C17_StatusTellsOutcome ==
    pc = "responded" =>
        /\ status = "success" <=> (decodes /\ ar_model)
        /\ status = "degraded" <=> (decodes /\ ~ar_model)
        /\ status = "error" <=> ~decodes

(***************************************************************************)
(* C20.  A tightening failure is isolated to its segment: when tightening  *)
(* one of the filtered segments raises (its crop cannot be taken), the     *)
(* other segments are processed and extract_document_features returns the  *)
(* components of the remaining pipeline; the call does not end in its      *)
(* except branch with the empty list.                                      *)
(***************************************************************************)
C20_TighteningIsolated ==
    (/\ pc = "done"
     /\ decodes
     /\ ar_model
     /\ \E s \in Range(FilterSegments(raw, img[1], img[2])) :
           TightenRaises(s, img[1], img[2]))
        => /\ raised = "none"
           /\ \A s \in Range(FilterSegments(raw, img[1], img[2])) :
                 ~TightenRaises(s, img[1], img[2]) =>
                     \E c \in Range(labeled) : c.det = s.det

(***************************************************************************)
(* The labeling end of extract_document_features, from the segments that   *)
(* reach _normalize_components: up to MaxLabel boxes side by side in a     *)
(* 400 x 300 image, in the order _remove_overlaps leaves them (confidence  *)
(* never rising), which the stages before pass through untouched when      *)
(* nothing is trimmed.                                                     *)
(***************************************************************************)
MaxLabel == 3

\* the i-th of a row of 40 x 40 boxes
LabelBox(i) == <<50 * i - 40, 40, 50 * i, 80>>

LabelHints ==
    { <<>>,
      <<StrValve, StrValve, StrPump>>,
      << <<>>, StrValve >>,
      <<StrComponentA, StrComponentA>> }

InitLabel ==
    /\ pc = "complex"
    /\ img = <<400, 300>>
    /\ \E l \in ListsOf(PipeConfs, MaxLabel) :
          /\ \A i, j \in 1..Len(l) : i < j => l[i] >= l[j]
          /\ raw = [i \in 1..Len(l) |-> Seg(LabelBox(i), l[i], i)]
    /\ segs = raw
    /\ nonbg = raw
    /\ hints \in LabelHints
    /\ vision \in BOOLEAN
    /\ labeled = <<>>
    /\ comps = <<>>
    /\ IdleGeo
    /\ IdleService

NextLabel ==
    \/ NormalizeStage
    \/ LabelStage
    \/ DedupStage
    \/ ReturnStage

SpecLabel == InitLabel /\ [][NextLabel]_vars

(***************************************************************************)
(* C12.  After label deduplication no two returned components share a      *)
(* label (case-insensitively) unless that label is empty, a default        *)
(* placeholder of the form "Component N" with N a number, "unknown" or     *)
(* "unlabeled"; labels that merely begin with the word "Component" are     *)
(* not excepted.                                                           *)
(***************************************************************************)
AllDigits(s) == Len(s) > 0 /\ \A k \in 1..Len(s) : \E d \in 1..10 : Digits[d] = s[k]

\* "component N", N a number, whatever the case of its letters
PlaceholderForm(label) ==
    LET low == StrLower(label)
        word == StrComponent \o <<" ">>
    IN  /\ StartsWith(low, word)
        /\ AllDigits(SubSeq(low, Len(word) + 1, Len(low)))

MayRepeat(label) ==
    \/ label = <<>>
    \/ PlaceholderForm(label)
    \/ StrLower(label) \in {StrUnknown, StrUnlabeled}

C12_LabelsUnique ==
    pc = "done" =>
        \A i, j \in 1..Len(comps) :
            (i # j /\ StrLower(comps[i].label) = StrLower(comps[j].label))
                => MayRepeat(comps[i].label)

(***************************************************************************)
(* C14.  In the list returned by extract_document_features(image, hints),  *)
(* for every index i that exists in both the output and hints with         *)
(* hints[i] non-empty, output[i].label equals hints[i] verbatim, for every *)
(* hints list including ones with repeated entries.  (The statement as     *)
(* claimed; indices count from 1 here.)                                    *)
(***************************************************************************)
C14_Original ==
    pc = "done" =>
        \A i \in 1..Min(Len(comps), Len(hints)) :
            hints[i] # <<>> => comps[i].label = hints[i]

(***************************************************************************)
(* C14, amended.  Every component returned by                              *)
(* extract_document_features(image, hints) whose id is component_i, with i *)
(* an index of hints and hints[i] non-empty, has hints[i] verbatim as its  *)
(* label, and the labeling oracle was not asked about it; this holds for   *)
(* every hints list, including ones with repeated entries, whether or not  *)
(* the vision model is loaded.                                             *)
(***************************************************************************)
C14_HintByComponentId ==
    pc = "done" =>
        \A k \in 1..Len(comps) :
            LET i == IdIndex(comps[k]) + 1
            IN  (i <= Len(hints) /\ hints[i] # <<>>) =>
                    /\ comps[k].label = hints[i]
                    /\ answers[i] = <<>>

\* the second of three hinted labels was a repeat and its component was
\* dropped: the component returned second carries the third hint
C14_Witness ==
    /\ pc = "done"
    /\ Len(hints) = 3
    /\ Len(comps) = 2
    /\ comps[2].id = ComponentId(2)
    /\ comps[2].label = hints[3]
    /\ hints[2] # hints[3]

(***************************************************************************)
(* C18.  When the labeling oracle is unavailable (vision model or          *)
(* processor not loaded), the labeler returns every component it was given *)
(* and every component at index i for which hints has no non-empty entry   *)
(* (index beyond the hints list, or hints[i] empty) is labelled with the   *)
(* positional placeholder "Component {i+1}".                               *)
(***************************************************************************)
NoHintAt(i) == i > Len(hints) \/ hints[i] = <<>>

C18_PlaceholderWithoutVision ==
    (pc = "labeled" /\ ~vision) =>
        /\ Len(labeled) = Len(segs)
        /\ \A i \in 1..Len(labeled) :
              /\ labeled[i].id = ComponentId(i - 1)
              /\ NoHintAt(i) => labeled[i].label = Placeholder(i - 1)

(***************************************************************************)
(* C19.  A labeling failure is isolated to its component: when labeling    *)
(* component i raises, returns nothing or returns empty text, that         *)
(* component is still returned with label "Component {i+1}", every other   *)
(* component is labelled as if the failure had not occurred (its hint, or  *)
(* else the label the oracle gave it), and the extraction does not abort.  *)
(***************************************************************************)
LabelingFailed(i) == NoHintAt(i) /\ answers[i] \in {Raised, <<>>}

C19_LabelingFailureIsolated ==
    (pc \in {"labeled", "label_deduped", "done"} /\ vision) =>
        /\ raised = "none"
        /\ Len(labeled) = Len(segs)
        /\ \A i \in 1..Len(labeled) :
              /\ labeled[i].id = ComponentId(i - 1)
              /\ LabelingFailed(i) => labeled[i].label = Placeholder(i - 1)
              /\ (NoHintAt(i) /\ ~LabelingFailed(i)) => labeled[i].label = answers[i]
              /\ ~NoHintAt(i) => labeled[i].label = hints[i]

\* labeling the first component raised, the second got its label from the
\* oracle and the third has none
C19_Witness ==
    /\ pc = "labeled"
    /\ vision
    /\ Len(labeled) = 3
    /\ hints = <<>>
    /\ answers[1] = Raised /\ labeled[1].label = Placeholder(0)
    /\ answers[2] = StrValve /\ labeled[2].label = StrValve
    /\ answers[3] = <<>> /\ labeled[3].label = Placeholder(2)

(***************************************************************************)
(* The relationship analyser, called on the components of one extraction   *)
(* (as /api/ar/generate and the tests call it) and on the concatenation of *)
(* the components of several files (as /extract-from-multiple calls it).   *)
(* There are MaxFiles files, each a 400 x 300 image, with up to MaxRel     *)
(* components between them out of RelBoxes, normalised as the extraction   *)
(* normalises them (a file can have none).  With centres                   *)
(* at (30,60), (80,60), (90,60) and (30,90) pixels the normalised          *)
(* distances are 0.125, 0.15 (the threshold itself), 0.1, 0.025, 0.16 and  *)
(* 0.18.                                                                   *)
(***************************************************************************)
MaxRel == 3
MaxFiles == 2

RelBoxes ==
    { <<10, 40, 50, 80>>, <<60, 40, 100, 80>>, <<70, 40, 110, 80>>, <<10, 70, 50, 110>> }

\* the boxes found, each with the file it was found in, file by file
Placements ==
    {l \in ListsOf(RelBoxes \X (1..MaxFiles), MaxRel) :
        \A i, j \in 1..Len(l) : i < j => l[i][2] <= l[j][2]}

\* what the extraction of file f returns: ids by position, from component_0
FileComponents(l, f) ==
    LET found == SelectSeq(l, LAMBDA e : e[2] = f)
    IN  NormalizeComponents([i \in 1..Len(found) |-> Seg(found[i][1], 90, i)], 400, 300)

RECURSIVE Concatenate(_, _)
Concatenate(lists, n) ==
    IF n = 0 THEN <<>> ELSE Concatenate(lists, n - 1) \o lists[n]

InitRel ==
    /\ pc = "rel"
    /\ \E l \in Placements : files = [f \in 1..MaxFiles |-> FileComponents(l, f)]
    /\ comps = <<>>
    /\ connections = <<>>
    /\ status = "none"
    /\ decodes = TRUE /\ ar_model = TRUE /\ raised = "none" /\ answers = <<>>
    /\ IdleRequests
    /\ img = <<400, 300>>
    /\ raw = <<>>
    /\ segs = <<>>
    /\ nonbg = <<>>
    /\ labeled = <<>>
    /\ hints = <<>>
    /\ vision = FALSE
    /\ IdleGeo

\* analyze_component_relationships(components) for the components of one file
AnalyzeCall ==
    /\ pc = "rel"
    /\ comps' = files[1]
    /\ connections' = AnalyzeComponentRelationships(files[1])
    /\ pc' = "analyzed"
    /\ UNCHANGED <<img, raw, segs, nonbg, labeled, hints, vision, boxA, boxB, geo,
                   decodes, ar_model, raised, answers, status, files, requests>>

\* extract_from_multiple for a request that names the files, each of which
\* resolves: all_components.extend(components) for each file, then one
\* analysis of all_components
ExtractFromMultiple ==
    /\ pc = "rel"
    /\ files # <<>>
    /\ comps' = Concatenate(files, Len(files))
    /\ connections' = IF comps' # <<>> THEN AnalyzeComponentRelationships(comps') ELSE <<>>
    /\ status' = "success"
    /\ pc' = "combined"
    /\ UNCHANGED <<img, raw, segs, nonbg, labeled, hints, vision, boxA, boxB, geo,
                   decodes, ar_model, raised, answers, files, requests>>

NextRel ==
    \/ AnalyzeCall
    \/ ExtractFromMultiple

SpecRel == InitRel /\ [][NextRel]_vars

(***************************************************************************)
(* C15.  analyze_component_relationships emits exactly one connection for  *)
(* each index pair i < j whose centre-to-centre distance is strictly below *)
(* proximity_threshold (0.15), with from = components[i].id,               *)
(* to = components[j].id and distance >= 0, and nothing else; with fewer   *)
(* than 2 components the connection list is empty.  The connections come   *)
(* in the order of the pairs.                                              *)
(***************************************************************************)
\* d2 < 0.15^2 for a squared distance d2 = <<n, d>>; a distance of 0.5 or
\* more is told apart first, which keeps the products small
BelowThreshold(d2) == 4 * d2[1] < d2[2] /\ 400 * d2[1] < 9 * d2[2]

ClosePairs(components) ==
    {p \in (1..Len(components)) \X (1..Len(components)) :
        p[1] < p[2] /\ BelowThreshold(Distance2(components[p[1]], components[p[2]]))}

PairBefore(p, q) == p[1] < q[1] \/ (p[1] = q[1] /\ p[2] < q[2])

\* the place of pair p among the close pairs, in the order of the loops
PairRank(components, p) ==
    Cardinality({q \in ClosePairs(components) : PairBefore(q, p)}) + 1

C15_ConnectionsAreClosePairs ==
    pc \in {"analyzed", "combined"} =>
        /\ Len(connections) = Cardinality(ClosePairs(comps))
        /\ \A p \in ClosePairs(comps) :
              LET c == connections[PairRank(comps, p)]
              IN  /\ c.from = comps[p[1]].id
                  /\ c.to = comps[p[2]].id
                  /\ c.distance2 = Distance2(comps[p[1]], comps[p[2]])
                  /\ c.distance2[1] >= 0 /\ c.distance2[2] > 0
        /\ Len(comps) < 2 => connections = <<>>

\* three components: the first two are close, the first and the third are
\* exactly 0.15 apart, which is not close
C15_Witness ==
    /\ pc = "combined"
    /\ Len(comps) = 3
    /\ Len(connections) = 2
    /\ BelowThreshold(Distance2(comps[1], comps[2]))
    /\ Distance2(comps[1], comps[3]) = <<9, 400>>
    /\ connections[1].to = comps[2].id
    /\ connections[2].from = comps[2].id

(***************************************************************************)
(* C16.  In every connections list the service produces, including         *)
(* combinedRelationships of /extract-from-multiple, no two records name    *)
(* the same unordered pair of component ids (never both (A,B) and (B,A),   *)
(* never (A,B) twice) and no record has from equal to to.                  *)
(***************************************************************************)
C16_NoPairTwice ==
    pc \in {"analyzed", "combined"} =>
        /\ \A k \in 1..Len(connections) : connections[k].from # connections[k].to
        /\ \A k, l \in 1..Len(connections) :
              k # l => {connections[k].from, connections[k].to}
                           # {connections[l].from, connections[l].to}

(***************************************************************************)
(* The request layer.  run.py starts the Flask development server with     *)
(* app.run(host, port, debug, use_reloader=False); the server handles      *)
(* each request in a thread of its own (threaded is left at its default).  *)
(* A request thread runs extract_document_features: one call of            *)
(* manager.ar_model, the refinement stages, and in _label_components one   *)
(* call of manager.vision_model.generate for each component that has no    *)
(* hint.  Neither call site takes a lock: ar_service.py, model_manager.py  *)
(* and the routes define and acquire none.                                 *)
(***************************************************************************)
NumThreads == 3
MaxVisionCalls == 2

\* the positions at which an oracle's inference call is in progress
InferenceCalls == {"ar_model", "generate"}

\* the rest of the model is not in play
IdlePipeline ==
    /\ img = <<0, 0>> /\ raw = <<>> /\ segs = <<>> /\ nonbg = <<>>
    /\ IdleLabels /\ IdleGeo
    /\ decodes = TRUE /\ ar_model = TRUE /\ raised = "none"
    /\ answers = <<>> /\ status = "none" /\ files = <<>> /\ connections = <<>>

InitThreads ==
    /\ pc = "serving"
    /\ threads = [t \in 1..NumThreads |-> [at |-> "idle", left |-> 0]]
    /\ stored_name = <<>> /\ file_path = <<>> /\ uploads = {} /\ resolved = <<>>
    /\ IdlePipeline

ThreadStep(t, at, left) ==
    /\ threads' = [threads EXCEPT ![t] = [at |-> at, left |-> left]]
    /\ UNCHANGED <<pc, img, raw, segs, nonbg, labeled, comps, hints, vision, boxA, boxB,
                   geo, decodes, ar_model, raised, answers, status, files, connections,
                   stored_name, file_path, uploads, resolved>>

\* a request arrives and its thread enters results = manager.ar_model(image_path)
CallArModel(t) ==
    /\ threads[t].at = "idle"
    /\ ThreadStep(t, "ar_model", 0)

\* the segmentation returns; the stages leave some number of components that
\* _label_components will ask the vision model about
ReturnArModel(t) ==
    /\ threads[t].at = "ar_model"
    /\ \E n \in 0..MaxVisionCalls : ThreadStep(t, "refining", n)

\* _query_vision_for_label enters manager.vision_model.generate(...)
CallGenerate(t) ==
    /\ threads[t].at = "refining"
    /\ threads[t].left > 0
    /\ ThreadStep(t, "generate", threads[t].left)

\* generate returns
ReturnGenerate(t) ==
    /\ threads[t].at = "generate"
    /\ ThreadStep(t, "refining", threads[t].left - 1)

\* the request is answered
Respond(t) ==
    /\ threads[t].at = "refining"
    /\ threads[t].left = 0
    /\ ThreadStep(t, "idle", 0)

NextThreads ==
    \E t \in 1..NumThreads :
        \/ CallArModel(t)
        \/ ReturnArModel(t)
        \/ CallGenerate(t)
        \/ ReturnGenerate(t)
        \/ Respond(t)

SpecThreads == InitThreads /\ [][NextThreads]_vars

InProgress == {t \in 1..NumThreads : threads[t].at \in InferenceCalls}

(***************************************************************************)
(* C21.  With requests handled concurrently, a thread each, at no time are *)
(* two inference calls (of the segmentation model or of the vision         *)
(* model's generate) in progress at once.                                  *)
(***************************************************************************)
C21_InferenceExclusive ==
    pc = "serving" => Cardinality(InProgress) <= 1

(***************************************************************************)
(* resolve_file_path (backend/app/utils/shared_utils.py) on a POSIX file   *)
(* system without symbolic links.  A name is a string (a sequence of       *)
(* characters); a path is the sequence of its components, from the root.   *)
(* None is the empty sequence and "no error" is the status code 0.         *)
(***************************************************************************)
StrBackend == <<"b", "a", "c", "k", "e", "n", "d">>
StrStatic == <<"s", "t", "a", "t", "i", "c">>
StrUploads == <<"u", "p", "l", "o", "a", "d", "s">>
StrDot == <<".">>
StrDotDot == <<".", ".">>

BASE_DIR == <<StrBackend>>
UPLOAD_FOLDER == BASE_DIR \o <<StrStatic, StrUploads>>

\* os.path.basename: what follows the last separator
Basename(name) ==
    LET seps == {i \in 1..Len(name) : name[i] = "/"}
    IN  IF seps = {} THEN name
        ELSE LET last == CHOOSE i \in seps : \A j \in seps : j <= i
             IN  SubSeq(name, last + 1, Len(name))

\* os.path.join(folder, name) for a name without a separator; an empty name
\* leaves the folder with a trailing separator
JoinPath(folder, name) == IF name = <<>> THEN folder ELSE Append(folder, name)

\* os.path.realpath: "." is dropped, ".." steps to the parent (the root is
\* its own parent)
RECURSIVE RealPathFrom(_, _, _)
RealPathFrom(path, i, acc) ==
    IF i > Len(path) THEN acc
    ELSE RealPathFrom(path, i + 1,
            IF path[i] = StrDot THEN acc
            ELSE IF path[i] = StrDotDot
                 THEN (IF acc = <<>> THEN acc ELSE SubSeq(acc, 1, Len(acc) - 1))
                 ELSE Append(acc, path[i]))

RealPath(path) == RealPathFrom(path, 1, <<>>)

\* os.path.exists: every step of the path names something that exists
PathExists(path, fs) ==
    \A k \in 1..Len(path) : RealPath(SubSeq(path, 1, k)) \in fs

IsPrefix(p, q) == Len(p) <= Len(q) /\ SubSeq(q, 1, Len(p)) = p

\* safe_under_uploads: commonpath([real_path, real_upload]) == real_upload
safe_under_uploads(path) == IsPrefix(RealPath(UPLOAD_FOLDER), RealPath(path))

\* resolve_file_path: <<resolved_path, status code of the error>>
ResolveFilePath(name, path, fs) ==
    LET stripped == StrStrip(name)
        safe_name == Basename(stripped)
        by_name == JoinPath(UPLOAD_FOLDER, safe_name)
        by_path == RealPath(path)
    IN  IF name # <<>>
        THEN IF safe_name # stripped THEN <<<<>>, 400>>
             ELSE IF ~PathExists(by_name, fs) THEN <<<<>>, 404>>
             ELSE <<by_name, 0>>
        ELSE IF path # <<>>
        THEN IF ~safe_under_uploads(by_path) THEN <<<<>>, 403>>
             ELSE IF ~PathExists(by_path, fs) THEN <<<<>>, 404>>
             ELSE <<by_path, 0>>
        ELSE <<<<>>, 400>>

MaxName == 3
PathChars == {".", "/", "a", " "}
StoredNames == UNION {[1..n -> PathChars] : n \in 0..MaxName}
StrA == <<"a">>

\* the folders above the uploads folder always exist; the uploads folder may
\* not exist yet, or be empty, or hold the file "a"
FileSystems ==
    LET above == {<<>>, BASE_DIR, BASE_DIR \o <<StrStatic>>}
    IN  {above, above \cup {UPLOAD_FOLDER},
         above \cup {UPLOAD_FOLDER, Append(UPLOAD_FOLDER, StrA)}}

\* file_path: absent, a file in the uploads folder, or a detour out of it
FilePaths ==
    {<<>>, Append(UPLOAD_FOLDER, StrA), UPLOAD_FOLDER \o <<StrDotDot, StrDotDot>>}

InitPath ==
    /\ pc = "resolve"
    /\ stored_name \in StoredNames
    /\ file_path \in FilePaths
    /\ uploads \in FileSystems
    /\ resolved = <<>>
    /\ threads = <<>>
    /\ IdlePipeline

ResolveFilePathCall ==
    /\ pc = "resolve"
    /\ resolved' = ResolveFilePath(stored_name, file_path, uploads)
    /\ pc' = "resolved"
    /\ UNCHANGED <<img, raw, segs, nonbg, labeled, comps, hints, vision, boxA, boxB, geo,
                   decodes, ar_model, raised, answers, status, files, connections,
                   threads, stored_name, file_path, uploads>>

NextPath == ResolveFilePathCall

SpecPath == InitPath /\ [][NextPath]_vars

(***************************************************************************)
(* C22.  For every stored_name, "." and ".." and names with separators     *)
(* included, resolve_file_path returns an error (400, 403 or 404) or a     *)
(* path that lies inside the uploads folder, never one outside it.         *)
(***************************************************************************)
C22_NoTraversal ==
    (pc = "resolved" /\ stored_name # <<>>) =>
        \/ resolved[2] \in {400, 403, 404}
        \/ (resolved[2] = 0 /\ safe_under_uploads(resolved[1]))

(***************************************************************************)
(* C24.  Pass A of _remove_overlaps, given the image area, removes a       *)
(* segment exactly when its area exceeds 0.55 of the image and it contains *)
(* (10 px margin, outer area more than twice the inner) at least 5 other   *)
(* segments of the input; were every segment to be removed, none is and    *)
(* Pass B runs on the full list.                                           *)
(***************************************************************************)
ContainedBy(segments, i) ==
    {j \in 1..Len(segments) :
        /\ j # i
        /\ InsideWithin(segments[i].box, segments[j].box, 10)
        /\ BoxArea(segments[i].box) > 2 * BoxArea(segments[j].box)}

MarkedBackground(segments, img_area) ==
    {i \in 1..Len(segments) :
        /\ 100 * segments[i].area > 55 * img_area
        /\ Cardinality(ContainedBy(segments, i)) >= 5}

C24_PassARemovesContainers ==
    (pc = "nms_done" /\ raw # <<>> /\ img[1] * img[2] # 0) =>
        LET sorted == SortByConfidence(raw)
            marked == MarkedBackground(sorted, img[1] * img[2])
        IN  IF marked = 1..Len(sorted)
            THEN nonbg = sorted
            ELSE nonbg = SelectAt(sorted, (1..Len(sorted)) \ marked, Len(sorted))

\* [0,0,100,100] in a 160 x 100 image holds exactly the five small boxes and
\* is not handed to Pass B
C24_Witness ==
    /\ pc = "nms_done"
    /\ Len(raw) = 6
    /\ raw[1].box = <<0, 0, 100, 100>>
    /\ img = <<160, 100>>
    /\ nonbg = SubSeq(raw, 2, 6)

(***************************************************************************)
(* C30.  For a non-empty list of segments with positive area Pass A never  *)
(* marks every segment as background, so the fallback to the full list is  *)
(* not reached; the output of _remove_overlaps is non-empty and contains   *)
(* the highest-confidence segment that is not background.                  *)
(***************************************************************************)
C30_SomeSegmentSurvives ==
    (pc = "nms_done" /\ raw # <<>>) =>
        LET sorted == SortByConfidence(raw)
            plain == {i \in 1..Len(sorted) : ~IsBackground(sorted, i, img[1] * img[2])}
        IN  /\ plain # {}
            /\ segs # <<>>
            /\ \A i \in plain : (\A j \in plain : i <= j) => sorted[i] \in Range(segs)

\* two copies of the image-filling box are background, the small boxes stay
C30_Witness ==
    /\ pc = "nms_done"
    /\ Len(nonbg) + 2 = Len(raw)
    /\ segs # <<>>
    /\ nonbg[1] = segs[1]

(***************************************************************************)
(* _remove_overlaps followed by _remove_contained_duplicates, as           *)
(* extract_document_features chains them (lines 79-85), on lists of up to  *)
(* MaxContain segments of a 400 x 300 image that have passed the filter:   *)
(* a parent with children of 16%, 16%, 42% and 50% of its area, a box of   *)
(* 55% that sticks out of it by 10 px, and two boxes of one size, 15 px    *)
(* apart.                                                                  *)
(***************************************************************************)
MaxContain == 3

ContainBoxes ==
    { <<100, 100, 200, 200>>, <<110, 110, 150, 150>>, <<155, 155, 195, 195>>,
      <<100, 100, 200, 150>>, <<105, 105, 170, 170>>, <<90, 100, 190, 155>>,
      <<220, 100, 260, 140>>, <<235, 115, 275, 155>> }

InitContain ==
    /\ pc = "tightened"
    /\ img = <<400, 300>>
    /\ \E l \in ListsOf(ContainBoxes \X PipeConfs, MaxContain) :
          raw = [i \in 1..Len(l) |-> Seg(l[i][1], l[i][2], i)]
    /\ segs = raw
    /\ nonbg = <<>>
    /\ IdleLabels
    /\ IdleGeo
    /\ IdleService

NextContain == OverlapStage \/ ContainmentStage

SpecContain == InitContain /\ [][NextContain]_vars

\* what Pass B hands on: the list _remove_contained_duplicates is given
PassBOutput == NmsKept(nonbg, Len(nonbg))

ChildrenWithin(segments, i, m) ==
    {j \in 1..Len(segments) : j # i /\ InsideWithin(segments[i].box, segments[j].box, m)}

(***************************************************************************)
(* C25.  _remove_contained_duplicates removes a segment exactly when,      *)
(* with a 15 px margin on every side, no area condition, and counting over *)
(* all segments of its input, it contains at least 2 others, or exactly 1  *)
(* other whose area is more than 40% of its own; every other segment is    *)
(* kept, in order and with its geometry, whatever the confidences.         *)
(***************************************************************************)
RemovedAsContainer(segments, i) ==
    LET children == ChildrenWithin(segments, i, 15)
    IN  \/ Cardinality(children) >= 2
        \/ /\ Cardinality(children) = 1
           /\ \A j \in children :
                 100 * BoxArea(segments[j].box) > 40 * BoxArea(segments[i].box)

C25_RemovesContainers ==
    pc = "contained" =>
        segs = SelectAt(PassBOutput,
                        {i \in 1..Len(PassBOutput) : ~RemovedAsContainer(PassBOutput, i)},
                        Len(PassBOutput))

\* the parent goes for its one child of 42%
C25_Witness ==
    /\ pc = "contained"
    /\ Len(PassBOutput) = 2
    /\ {PassBOutput[1].box, PassBOutput[2].box}
          = {<<100, 100, 200, 200>>, <<105, 105, 170, 170>>}
    /\ PassBOutput[1].conf > PassBOutput[2].conf
    /\ Len(segs) = 1
    /\ segs[1].box = <<105, 105, 170, 170>>

(***************************************************************************)
(* C26.  _remove_contained_duplicates removes only the larger outer box    *)
(* and keeps the smaller one: whenever it removes a segment, at least one  *)
(* segment that the removed one contains survives, so a non-empty input    *)
(* never yields an empty output.                                           *)
(***************************************************************************)
C26_ChildSurvives ==
    pc = "contained" =>
        /\ \A i \in 1..Len(PassBOutput) :
              PassBOutput[i] \notin Range(segs) =>
                 \E j \in ChildrenWithin(PassBOutput, i, 15) : PassBOutput[j] \in Range(segs)
        /\ PassBOutput # <<>> => segs # <<>>

(***************************************************************************)
(* C29.  Whenever Pass B keeps both boxes of a pair through the nesting    *)
(* exception (IoU over the threshold, nested) and the inner box lies       *)
(* within the outer up to 15 px on every side, the outer box is removed by *)
(* _remove_contained_duplicates: such a parent and child never both reach  *)
(* the output.                                                             *)
(***************************************************************************)
KeptAsNested(a, b) ==
    /\ IouOverThreshold(CalculateIou(a.box, b.box))
    /\ IsNested(a.box, b.box)

C29_NestedParentRemoved ==
    pc = "contained" =>
        \A i, j \in 1..Len(PassBOutput) :
            LET outer == PassBOutput[i]
                inner == PassBOutput[j]
            IN  (/\ i # j
                 /\ BoxArea(outer.box) >= BoxArea(inner.box)
                 /\ KeptAsNested(outer, inner)
                 /\ InsideWithin(outer.box, inner.box, 15))
                => outer \notin Range(segs)

\* [100,100,200,200] and its upper half: IoU 0.5, ratio 2, both out of Pass B,
\* the half alone out of the containment step
C29_Witness ==
    /\ pc = "contained"
    /\ Len(PassBOutput) = 2
    /\ PassBOutput[1].box = <<100, 100, 200, 200>>
    /\ PassBOutput[2].box = <<100, 100, 200, 150>>
    /\ KeptAsNested(PassBOutput[1], PassBOutput[2])
    /\ segs = <<PassBOutput[2]>>

(***************************************************************************)
(* _tighten_boxes on segments whose coordinates carry a fraction, as the   *)
(* xyxy floats of the segmentation oracle do: up to MaxTighten filtered    *)
(* segments of a 400 x 300 image, both x coordinates with one fraction     *)
(* and both y coordinates with one (so width, height and area_pixels are   *)
(* whole numbers), each fraction 0 or one half.                            *)
(***************************************************************************)
MaxTighten == 2

TightenBoxesIn == { <<10, 10, 50, 50>>, <<100, 100, 200, 134>>, <<60, 60, 160, 140>> }
Fractions == {0, 5}

InitTighten ==
    /\ pc = "filtered"
    /\ img = <<400, 300>>
    /\ \E l \in ListsOf(TightenBoxesIn \X Fractions \X Fractions \X PipeConfs, MaxTighten) :
          raw = [i \in 1..Len(l) |->
                    [Seg(l[i][1], l[i][4], i) EXCEPT
                        !.sub = <<l[i][2], l[i][3], l[i][2], l[i][3]>>]]
    /\ segs = raw
    /\ nonbg = <<>>
    /\ IdleLabels
    /\ IdleGeo
    /\ IdleService

NextTighten == TightenStage

SpecTighten == InitTighten /\ [][NextTighten]_vars

\* coordinate k of a segment, in units of 1 / SubPixel
Coord(seg, k) == SubPixel * seg.box[k] + seg.sub[k]

\* the segment the oracle returned from which seg was made
Source(seg) == CHOOSE r \in Range(raw) : r.det = seg.det

(***************************************************************************)
(* C27.  The box tightener only shrinks: for every segment, its float      *)
(* coordinates truncated with int(), the output box lies within the input  *)
(* box, each side has moved inward by at most 15% of the box's dimension   *)
(* on that axis, the box is replaced only if the trimmed dimensions are at *)
(* least min_dimension with aspect ratio at most max_aspect_ratio and is   *)
(* otherwise unchanged, and the confidence is never changed.               *)
(***************************************************************************)
C27_OnlyShrinks ==
    pc = "tightened" =>
        \A k \in 1..Len(segs) :
            LET out == segs[k]
                in == Source(out)
                in_w == Coord(in, 3) - Coord(in, 1)
                in_h == Coord(in, 4) - Coord(in, 2)
                out_w == Coord(out, 3) - Coord(out, 1)
                out_h == Coord(out, 4) - Coord(out, 2)
            IN  /\ Coord(out, 1) >= Coord(in, 1) /\ Coord(out, 2) >= Coord(in, 2)
                /\ Coord(out, 3) <= Coord(in, 3) /\ Coord(out, 4) <= Coord(in, 4)
                /\ 100 * (Coord(out, 1) - Coord(in, 1)) <= 15 * in_w
                /\ 100 * (Coord(in, 3) - Coord(out, 3)) <= 15 * in_w
                /\ 100 * (Coord(out, 2) - Coord(in, 2)) <= 15 * in_h
                /\ 100 * (Coord(in, 4) - Coord(out, 4)) <= 15 * in_h
                /\ out.conf = in.conf
                /\ (out.box # in.box \/ out.sub # in.sub) =>
                      /\ out_w >= 30 * SubPixel
                      /\ out_h >= 30 * SubPixel
                      /\ Max(out_w, out_h) <= 4 * Min(out_w, out_h)

(***************************************************************************)
(* C28.  In the pipeline the list that reaches the labeler and the label   *)
(* deduplication is always in non-increasing confidence order; so the      *)
(* replacement branch of _deduplicate_by_label is never taken there and    *)
(* of the components sharing a label the first-listed is the one kept.     *)
(***************************************************************************)
NonIncreasing(components) ==
    \A i, j \in 1..Len(components) : i < j => components[i].conf >= components[j].conf

FirstCarrying(components, key) ==
    CHOOSE k \in Carrying(components, key) : \A m \in Carrying(components, key) : k <= m

C28_DedupKeepsFirstListed ==
    /\ pc \in {"normalized", "labeled"} => NonIncreasing(comps)
    /\ pc = "label_deduped" =>
          \A c \in Range(labeled) :
              ~KeptUnderId(c) =>
                  LET key == DedupKey(c)
                      first == labeled[FirstCarrying(labeled, key)]
                  IN  /\ \A m \in Carrying(labeled, key) : labeled[m].conf <= first.conf
                      /\ \A k \in Carrying(comps, key) : comps[k] = first

\* the oracle's second segment has the higher confidence, is listed first
\* after the sort and keeps the label both were given
C28_Witness ==
    /\ pc = "label_deduped"
    /\ Len(labeled) = 2
    /\ labeled[1].det = 2 /\ labeled[1].conf = 90
    /\ labeled[2].det = 1 /\ labeled[2].conf = 60
    /\ labeled[1].label = StrValve /\ labeled[2].label = StrValve
    /\ comps = <<labeled[1]>>

(***************************************************************************)
(* extract_document_features and the route, end to end, on an 800 x 600    *)
(* image for which the oracle returns one box of 0.9 of the image and up   *)
(* to MaxE2E boxes of 100 x 96 px (0.02 of the image) that do not overlap, *)
(* all with confidence 0.9, the large box first or last.                   *)
(***************************************************************************)
MaxE2E == 3

E2EImage == <<800, 600>>
E2EBackground == <<0, 0, 800, 540>>
E2EBoxes ==
    << <<50, 50, 150, 146>>, <<160, 50, 260, 146>>,
       <<50, 160, 150, 256>>, <<600, 400, 700, 496>> >>
E2EHints == { <<>>, <<StrValve>> }

\* the sub-lists of E2EBoxes with at most MaxE2E boxes, as sets of positions
E2EChoices == {c \in SUBSET (1..Len(E2EBoxes)) : Cardinality(c) <= MaxE2E}

InitE2E ==
    /\ pc = "call"
    /\ img = E2EImage
    /\ \E c \in E2EChoices, first \in BOOLEAN :
          LET small == SelectAt(E2EBoxes, c, Len(E2EBoxes))
              boxes == IF first THEN <<E2EBackground>> \o small
                                ELSE Append(small, E2EBackground)
          IN  raw = [i \in 1..Len(boxes) |-> Seg(boxes[i], 90, i)]
    /\ hints \in E2EHints
    /\ vision \in BOOLEAN
    /\ decodes = TRUE
    /\ ar_model = TRUE
    /\ segs = <<>>
    /\ nonbg = <<>>
    /\ labeled = <<>>
    /\ comps = <<>>
    /\ raised = "none"
    /\ answers = <<>>
    /\ status = "none"
    /\ files = <<>>
    /\ connections = <<>>
    /\ IdleRequests
    /\ IdleGeo

SpecE2E == InitE2E /\ [][Next]_vars

\* the distance of the two centres is below 0.15
CentresClose(a, b) ==
    LET dx == FracDiff(a.center_x, b.center_x)
        dy == FracDiff(a.center_y, b.center_y)
    IN  /\ 20 * Abs(dx[1]) < 3 * dx[2]
        /\ 20 * Abs(dy[1]) < 3 * dy[2]
        /\ 400 * Distance2(a, b)[1] < 9 * Distance2(a, b)[2]

(***************************************************************************)
(* C23.  End to end: when the oracle returns one box whose area ratio is   *)
(* above max_area_ratio and k <= 50 pairwise non-overlapping boxes of area *)
(* ratio about 0.02 and confidence 0.9, the visual complexity check passes *)
(* and the labels are distinct, the output has exactly k components, and   *)
(* the connections are exactly the pairs of components whose centres are   *)
(* less than 0.15 apart.                                                   *)
(***************************************************************************)
C23_EndToEnd ==
    LET k == Len(raw) - 1
        small == {i \in 1..Len(raw) : raw[i].box # E2EBackground}
        complexity_passed == Len(segs) = k
        labels_distinct ==
            \A i, j \in 1..Len(labeled) :
                i # j => StrLower(labeled[i].label) # StrLower(labeled[j].label)
    IN  /\ pc = "filtered" => segs = SelectAt(raw, small, Len(raw))
        /\ pc \in {"tightened", "unique", "contained"} =>
              Len(segs) = k /\ \A i \in 1..k : segs[i].conf = 90
        /\ (pc \in {"done", "responded"} /\ complexity_passed /\ labels_distinct) =>
              /\ Len(comps) = k
              /\ \A i \in 1..k : comps[i].det = segs[i].det
        /\ (pc = "responded" /\ complexity_passed /\ labels_distinct) =>
              /\ \A i, j \in 1..Len(comps) :
                    (i < j /\ CentresClose(comps[i], comps[j])) <=>
                        \E n \in 1..Len(connections) :
                            /\ connections[n].from = comps[i].id
                            /\ connections[n].to = comps[j].id
              /\ \A n \in 1..Len(connections) :
                    \E i, j \in 1..Len(comps) :
                        /\ i < j
                        /\ connections[n].from = comps[i].id
                        /\ connections[n].to = comps[j].id
                        /\ \A m \in 1..Len(connections) :
                              (connections[m].from = comps[i].id
                                  /\ connections[m].to = comps[j].id) => m = n

\* three small boxes and the large one: three components, and one connection,
\* between the two boxes that are 110 px apart
C23_Witness ==
    /\ pc = "responded"
    /\ Len(raw) = 4
    /\ Len(comps) = 3
    /\ Len(connections) = 1
    /\ comps[1].box_pixels[1] < 160 /\ comps[2].box_pixels[1] >= 160
    /\ connections[1].from = comps[1].id
    /\ connections[1].to = comps[2].id

=============================================================================
